---- MODULE Spec2Model ----
(***************************************************************************)
(* A model of the level pipeline of MQT Bench (benchmark_generation.py),   *)
(* the discrete-synthesis pass (custom_solovay_kitaev.py) and the gateset  *)
(* catalog (targets/gatesets).                                             *)
(*                                                                         *)
(* A circuit is a record [name, num_qubits, ops, layout]; ops is the       *)
(* ordered sequence of operations, each a record                            *)
(* [name, qubits, clbits, par] where par is "none" (no parameter),          *)
(* "bound" (numeric parameter) or "free" (unbound symbolic parameter).      *)
(* layout is <<>> when the circuit carries no layout and otherwise the      *)
(* sequence of physical wires the virtual wires are placed on.              *)
(***************************************************************************)
EXTENDS Integers, Sequences, FiniteSets, TLC

\* ------------------------------------------------------------------------
\* Bounds of the model
\* ------------------------------------------------------------------------
\* largest circuit_size handed to a benchmark constructor
MaxSize == 2
\* longest operation sequence of a caller-built circuit
MaxOps == 2
\* how often one request is repeated
MaxCalls == 2

\* ------------------------------------------------------------------------
\* Operations and circuits
\* ------------------------------------------------------------------------
Op(name, qubits, par) ==
    [name |-> name, qubits |-> qubits, clbits |-> <<>>, par |-> par]

Measure(q, c) ==
    [name |-> "measure", qubits |-> <<q>>, clbits |-> <<c>>, par |-> "none"]

Barrier(qubits) ==
    [name |-> "barrier", qubits |-> qubits, clbits |-> <<>>, par |-> "none"]

Circuit(name, n, ops) ==
    [name |-> name, num_qubits |-> n, ops |-> ops, layout |-> <<>>]

\* the placeholder carried by a result that holds no circuit
NoCircuit == Circuit("", 0, <<>>)

Range(s) == {s[i] : i \in DOMAIN s}

RECURSIVE Flatten(_)
Flatten(ss) ==
    IF ss = <<>> THEN <<>> ELSE Head(ss) \o Flatten(Tail(ss))

\* names of the instructions that are not gates (they have no to_matrix)
NonGateNames == {"measure", "barrier", "reset", "delay"}

op_num_qubits(op) == Len(op.qubits)

is_parameterized(op) == op.par = "free"

has_to_matrix(op) == op.name \notin NonGateNames

\* QuantumCircuit.measure_all: a barrier over all qubits, then one
\* measurement per qubit into the classical bit of the same index
measure_all(qc) ==
    [qc EXCEPT !.ops =
        qc.ops
        \o (IF qc.num_qubits = 0 THEN <<>>
            ELSE <<Barrier([i \in 1..qc.num_qubits |-> i - 1])>>)
        \o [i \in 1..qc.num_qubits |-> Measure(i - 1, i - 1)]]

\* QuantumCircuit.remove_final_measurements(inplace=False): drops every
\* measurement and barrier that no later kept operation follows on any of
\* its qubits; the result is a new circuit without layout.
RECURSIVE RemoveFinal(_, _, _)
RemoveFinal(ops, i, blocked) ==
    IF i = 0 THEN <<>>
    ELSE IF ops[i].name \in {"measure", "barrier"}
            /\ Range(ops[i].qubits) \cap blocked = {}
         THEN RemoveFinal(ops, i - 1, blocked)
         ELSE RemoveFinal(ops, i - 1, blocked \cup Range(ops[i].qubits))
              \o <<ops[i]>>

remove_final_measurements(qc) ==
    [qc EXCEPT !.ops = RemoveFinal(qc.ops, Len(qc.ops), {}),
               !.layout = <<>>]

\* ------------------------------------------------------------------------
\* GatesetCatalog (targets/gatesets)
\* ------------------------------------------------------------------------
\* a discrete gateset that lists a rotation
get_clifford_t_gateset_with_rz ==
    <<"id", "x", "y", "z", "h", "s", "sdg", "t", "tdg", "sx", "sxdg",
      "cx", "cy", "cz", "swap", "iswap", "dcx", "ecr", "rz">>

get_clifford_t_gateset ==
    <<"id", "x", "y", "z", "h", "s", "sdg", "t", "tdg", "sx", "sxdg",
      "cx", "cy", "cz", "swap", "iswap", "dcx", "ecr">>

get_clifford_t_rotations_gateset ==
    get_clifford_t_gateset \o <<"rx", "ry", "rz">>

get_ibm_falcon_gateset == <<"id", "x", "sx", "rz", "cx">>

get_ibm_eagle_gateset == <<"id", "x", "sx", "rz", "ecr">>

get_ibm_heron_gateset == <<"id", "x", "sx", "rz", "cz">>

\* the gatesets of the two IonQ families, which targets/gatesets/__init__.py
\* imports and targets/gatesets/ionq.py leaves undefined: the native gates
\* of the calibrated devices of the same families
get_ionq_aria_gateset == <<"gpi", "gpi2", "ms", "measure">>

get_ionq_forte_gateset == <<"gpi", "gpi2", "zz", "measure">>

get_iqm_gateset == <<"r", "cz">>

get_quantinuum_gateset == <<"rx", "ry", "rz", "rzz">>

get_rigetti_gateset ==
    <<"rx_pi", "rx_pi_by_2", "rx_pi_by_minus_2", "rz", "iswap", "measure">>

\* names of the gatesets of the catalog
GatesetNames ==
    {"ibm_falcon", "ibm_eagle", "ibm_heron", "ionq_forte", "ionq_aria", "iqm",
     "quantinuum", "rigetti", "clifford+t", "clifford+t+rotations"}

get_available_native_gatesets ==
    [name \in GatesetNames |->
        CASE name = "ibm_falcon" -> get_ibm_falcon_gateset
          [] name = "ibm_eagle" -> get_ibm_eagle_gateset
          [] name = "ibm_heron" -> get_ibm_heron_gateset
          [] name = "ionq_forte" -> get_ionq_forte_gateset
          [] name = "ionq_aria" -> get_ionq_aria_gateset
          [] name = "iqm" -> get_iqm_gateset
          [] name = "quantinuum" -> get_quantinuum_gateset
          [] name = "rigetti" -> get_rigetti_gateset
          [] name = "clifford+t" -> get_clifford_t_gateset
          [] OTHER -> get_clifford_t_rotations_gateset]

\* the names of get_standard_gate_name_mapping() that occur in the catalog
\* or in the circuits of the model
StandardGateNames ==
    {"id", "x", "y", "z", "h", "s", "sdg", "t", "tdg", "sx", "sxdg",
     "cx", "cy", "cz", "swap", "iswap", "dcx", "ecr",
     "rx", "ry", "rz", "r", "rzz", "rxx", "u", "p", "measure", "reset",
     "delay"}

\* the names under which the custom gate classes declare themselves
CustomGateName(gate) ==
    CASE gate = "rx_pi" -> "rx_pi"
      [] gate = "rx_pi_by_2" -> "rx_pi_2"
      [] gate = "rx_pi_by_minus_2" -> "rx_minus_pi_2"
      [] OTHER -> gate

\* the branches of get_target_for_gateset that add a custom gate
KnownCustomGates ==
    {"gpi", "gpi2", "ms", "zz", "rx_pi", "rx_pi_by_2", "rx_pi_by_minus_2"}

\* A target: description, qubit count, the operations that carry
\* instruction properties and those declared without properties.
\* props holds the InstructionProperties records a calibrated target
\* declares, one per operation and wires; a synthetic target takes its
\* records from GenericBackendV2 and the model keeps their operations only.
\* isNone marks the absent target (Python's None).
Target(description, n, with_props, without_props) ==
    [isNone |-> FALSE, description |-> description, num_qubits |-> n,
     with_props |-> with_props, without_props |-> without_props,
     props |-> {}]

NoneTarget ==
    [isNone |-> TRUE, description |-> "", num_qubits |-> 0,
     with_props |-> {}, without_props |-> {}, props |-> {}]

operation_names(target) == target.with_props \cup target.without_props

\* the instructions GenericBackendV2 adds to every basis
GenericBackendExtras == {"measure", "delay", "reset"}

\* get_target_for_gateset(name, num_qubits) for a name of the catalog
get_target_for_gateset(name, num_qubits) ==
    LET gates == Range(get_available_native_gatesets[name])
        standard_gates == gates \cap StandardGateNames
        other_gates == gates \ StandardGateNames
    IN  Target(name, num_qubits,
               standard_gates \cup GenericBackendExtras,
               {CustomGateName(g) : g \in other_gates \cap KnownCustomGates})

\* get_native_gateset_by_name(name): the synthetic target of a gateset
\* without a qubit count
get_native_gateset_by_name(name) == get_target_for_gateset(name, 0)

\* ------------------------------------------------------------------------
\* The generic compiler collaborator (qiskit), seen through the calls the
\* pipeline makes
\* ------------------------------------------------------------------------
\* the seed_transpiler the pipeline passes
FixedSeed == 10

\* outcomes of the compiler's stochastic passes
Draws == {0, 1}

\* the outcome a seeded run draws
SeedDraw(seed) == seed % 2

ContinuousRotationNames == {"rx", "ry", "rz", "r", "u", "p"}

EntanglerNames ==
    {"cx", "cy", "cz", "swap", "iswap", "dcx", "ecr", "rzz", "rxx"}

PickName(names) == CHOOSE n \in names : TRUE

\* an operation can be expressed in the basis `names`
Translatable(op, names) ==
    \/ op.name \in NonGateNames
    \/ op.name \in names
    \/ op_num_qubits(op) = 1 /\ names \cap ContinuousRotationNames # {}
    \/ op_num_qubits(op) >= 2 /\ names \cap EntanglerNames # {}
       /\ (op.par = "none" \/ names \cap ContinuousRotationNames # {})

\* the basis translation of one operation; a stochastic pass may choose
\* between equivalent forms (draw)
TranslateOp(op, names, draw) ==
    IF op.name \in NonGateNames \/ op.name \in names THEN <<op>>
    ELSE IF op_num_qubits(op) = 1
    THEN LET r == Op(PickName(names \cap ContinuousRotationNames), op.qubits,
                     IF op.par = "free" THEN "free" ELSE "bound")
         IN  IF draw = 0 THEN <<r>> ELSE <<r, r>>
    ELSE LET e == PickName(names \cap EntanglerNames)
             n == op_num_qubits(op)
             chain == [k \in 1..(n - 1) |->
                          Op(e, <<op.qubits[k], op.qubits[k + 1]>>, "none")]
         IN  IF op.par = "none" THEN chain
             ELSE chain
                  \o <<Op(PickName(names \cap ContinuousRotationNames),
                          <<op.qubits[n]>>, op.par)>>
                  \o chain

CompileOk(qc) == [ok |-> TRUE, err |-> "", qc |-> qc]

CompileError(err) == [ok |-> FALSE, err |-> err, qc |-> NoCircuit]

\* One run of the preset pass managers on qc: restrict the operations to
\* the target's operations (no restriction without a target); the layout
\* stage places the circuit only when it is enabled and a target is given.
RunPreset(qc, target, opt_level, draw, layout_enabled) ==
    IF opt_level \notin 0..3 THEN CompileError("TranspilerError")
    ELSE IF target.isNone THEN CompileOk([qc EXCEPT !.layout = <<>>])
    ELSE IF \E i \in DOMAIN qc.ops :
                ~Translatable(qc.ops[i], operation_names(target))
    THEN CompileError("TranspilerError")
    ELSE CompileOk(
           [qc EXCEPT
              !.ops = Flatten([i \in DOMAIN qc.ops |->
                         TranslateOp(qc.ops[i], operation_names(target), draw)]),
              !.layout = IF layout_enabled
                         THEN [i \in 1..qc.num_qubits |-> i - 1]
                         ELSE <<>>])

\* the record the model keeps of one compiler invocation
CompilerCall(fn, qc, target, opt_level, seeded, seed, routing_method, layout_method, out) ==
    [fn |-> fn, input |-> qc, target |-> target, optimization_level |-> opt_level,
     seeded |-> seeded, seed |-> seed, routing_method |-> routing_method,
     layout_method |-> layout_method, out |-> out]

\* transpile(qc, target=..., optimization_level=..., seed_transpiler=...)
transpile(qc, target, opt_level, seed) ==
    RunPreset(qc, target, opt_level, SeedDraw(seed), TRUE)

\* level_<opt_level>_pass_manager(pm_config).run(qc): a configuration
\* without a seed lets the stochastic passes draw freely; an empty method
\* name leaves the stage out
level_pass_manager_run(qc, pm_config, opt_level, draw) ==
    RunPreset(qc, pm_config.target, opt_level,
              IF pm_config.seeded THEN SeedDraw(pm_config.seed) ELSE draw,
              pm_config.layout_method # "")

\* ------------------------------------------------------------------------
\* Discrete synthesis (custom_solovay_kitaev.py)
\* ------------------------------------------------------------------------
\* the approximation that replaces a node: a word over the discrete basis
\* on the node's qubit
SkApproximation(op) ==
    <<Op("h", op.qubits, "none"), Op("t", op.qubits, "none"),
      Op("h", op.qubits, "none")>>

\* the nodes the pass leaves alone
SkIgnored(op) ==
    (op_num_qubits(op) # 1) \/ is_parameterized(op) \/ ~has_to_matrix(op)

SkOk(ops) == [ok |-> TRUE, err |-> "", ops |-> ops]

SkError(err) == [ok |-> FALSE, err |-> err, ops |-> <<>>]

\* CustomSolovayKitaev.run
CustomSolovayKitaev_run(ops) ==
    SkOk(Flatten([i \in DOMAIN ops |->
            IF SkIgnored(ops[i]) THEN <<ops[i]>> ELSE SkApproximation(ops[i])]))

\* SolovayKitaev.run of the installed Qiskit: from 2.0.0 on it is the pass
\* above (backported = TRUE); before, it skips only the multi-qubit nodes
\* and fails on a one-qubit node it cannot take the matrix of
SolovayKitaev_run(ops, backported) ==
    IF backported THEN CustomSolovayKitaev_run(ops)
    ELSE IF \E i \in DOMAIN ops :
                op_num_qubits(ops[i]) = 1
                /\ (is_parameterized(ops[i]) \/ ~has_to_matrix(ops[i]))
    THEN SkError("TranspilerError")
    ELSE SkOk(Flatten([i \in DOMAIN ops |->
                 IF op_num_qubits(ops[i]) # 1 THEN <<ops[i]>>
                 ELSE SkApproximation(ops[i])]))

\* ------------------------------------------------------------------------
\* Filenames and the output collaborator
\* ------------------------------------------------------------------------
\* the encoding of Python's None for a qubit count
NoneSize == -1

\* the first word of a target description: description.strip().split(" ")[0]
FirstWord(description) ==
    CASE description = "ionq aria" -> "ionq"
      [] description = "ionq forte" -> "ionq"
      [] OTHER -> description

\* a Target is a mapping: it is falsy when it is None or declares nothing
TargetTruthy(target) == ~target.isNone /\ operation_names(target) # {}

FileName(base_name, level, description, opt_level, num_qubits, long) ==
    [benchmark_name |-> base_name, level |-> level, description |-> description,
     opt_level |-> opt_level, num_qubits |-> num_qubits, long |-> long,
     custom |-> FALSE]

\* a filename the caller chose (target_filename)
CustomFileName(target_filename) ==
    [benchmark_name |-> target_filename, level |-> "", description |-> "",
     opt_level |-> 0, num_qubits |-> NoneSize, long |-> FALSE, custom |-> TRUE]

generate_filename(benchmark_name, level, num_qubits, target, opt_level) ==
    LET description ==
            IF TargetTruthy(target) THEN FirstWord(target.description) ELSE ""
    IN  IF level = "nativegates"
        THEN FileName(benchmark_name, level, description, opt_level, num_qubits, TRUE)
        ELSE IF level = "mapped"
        THEN FileName(benchmark_name, level, description, opt_level, num_qubits, TRUE)
        ELSE FileName(benchmark_name, level, "", 0, num_qubits, FALSE)

OutputFormats == {"qasm2", "qasm3", "qpy"}

\* OutputFormat.extension()
extension(output_format) == IF output_format = "qpy" THEN "qpy" ELSE "qasm"

FilePath(filename, output_format) ==
    [filename |-> filename, ext |-> extension(output_format)]

\* ------------------------------------------------------------------------
\* The level functions (benchmark_generation.py)
\* ------------------------------------------------------------------------
NoSk == [ran |-> FALSE, input |-> <<>>, out |-> SkOk(<<>>)]

\* What one call of the pipeline produced: the kind of the result
\* ("circuit", "true" for the boolean True, "error"), the circuit, the
\* error, the compiler invocations it made, the steps it took, the run of
\* the synthesis pass and the files it wrote.
Outcome(kind, qc, err, msg, calls, steps, sk, written) ==
    [kind |-> kind, qc |-> qc, err |-> err, msg |-> msg, calls |-> calls,
     steps |-> steps, sk |-> sk, written |-> written]

ReturnCircuit(qc, calls, steps, sk) ==
    Outcome("circuit", qc, "", "", calls, steps, sk, {})

ReturnTrue(calls, steps, sk, written) ==
    Outcome("true", NoCircuit, "", "", calls, steps, sk, written)

Raise(err, msg, calls, steps, sk) ==
    Outcome("error", NoCircuit, err, msg, calls, steps, sk, {})

\* save_circuit writes the file and reports success
save_circuit(path, calls, steps, sk) == ReturnTrue(calls, steps, sk, {path})

get_alg_level(qc, num_qubits, file_precheck, return_qc, target_filename, output_format, files) ==
    LET filename_alg ==
            IF target_filename # "" THEN CustomFileName(target_filename)
            ELSE generate_filename(qc.name, "alg", num_qubits, NoneTarget, 0)
        path == FilePath(filename_alg, output_format)
    IN  IF return_qc THEN ReturnCircuit(qc, <<>>, <<>>, NoSk)
        ELSE IF output_format = "qasm2"
        THEN Raise("ValueError", "qasm2 not supported for alg", <<>>, <<>>, NoSk)
        ELSE IF file_precheck /\ path \in files
        THEN ReturnTrue(<<>>, <<>>, NoSk, {})
        ELSE save_circuit(path, <<>>, <<>>, NoSk)

get_indep_level(qc, num_qubits, file_precheck, return_qc, target_filename, output_format, files) ==
    LET filename_indep ==
            IF target_filename # "" THEN CustomFileName(target_filename)
            ELSE generate_filename(qc.name, "indep", num_qubits, NoneTarget, 0)
        path == FilePath(filename_indep, output_format)
    IN  IF file_precheck /\ path \in files
        THEN ReturnTrue(<<>>, <<>>, NoSk, {})
        ELSE IF return_qc THEN ReturnCircuit(qc, <<>>, <<>>, NoSk)
        ELSE save_circuit(path, <<>>, <<>>, NoSk)

\* a configuration that keeps the default routing and layout stages
PassManagerConfig_default_stages(target) ==
    [target |-> target, routing_method |-> "default",
     layout_method |-> "default", seeded |-> FALSE, seed |-> 0]

\* pm_config = PassManagerConfig(target=target, routing_method="",
\* layout_method=""): no seed_transpiler is given
PassManagerConfig(target) ==
    [target |-> target, routing_method |-> "", layout_method |-> "",
     seeded |-> FALSE, seed |-> 0]

\* lines 288-313 of get_native_gates_level: the preset pass manager of the
\* optimization level, built without a seed and with empty routing and
\* layout methods, is run on qc
RestrictToTarget(qc, target, opt_level, return_qc, path, calls, steps, sk, draw) ==
    IF opt_level \notin 0..3
    THEN Raise("ValueError", "Unsupported optimization level", calls, steps, sk)
    ELSE LET pm_config == PassManagerConfig(target)
             out == level_pass_manager_run(qc, pm_config, opt_level, draw)
             call == CompilerCall("pass_manager", qc, target, opt_level,
                                  pm_config.seeded, pm_config.seed,
                                  pm_config.routing_method,
                                  pm_config.layout_method, out)
         IN  IF ~out.ok
             THEN Raise(out.err, "", calls \o <<call>>,
                        steps \o <<"pass_manager">>, sk)
             ELSE IF return_qc
             THEN ReturnCircuit(out.qc, calls \o <<call>>,
                                steps \o <<"pass_manager">>, sk)
             ELSE save_circuit(path, calls \o <<call>>,
                               steps \o <<"pass_manager">>, sk)

\* the same, had the sub-path been taken for every described target
get_native_gates_level_sub_path_for_every_target(qc, target, num_qubits, opt_level, file_precheck, return_qc, target_filename, output_format, files, draw, backported) ==
    LET filename_native ==
            IF target_filename # "" THEN CustomFileName(target_filename)
            ELSE generate_filename(qc.name, "native", num_qubits, target, opt_level)
        path == FilePath(filename_native, output_format)
        clifford_t_rotations == get_native_gateset_by_name("clifford+t+rotations")
        compiled_for_sk == transpile(qc, clifford_t_rotations, opt_level, FixedSeed)
        call1 == CompilerCall("transpile", qc, clifford_t_rotations, opt_level,
                              TRUE, FixedSeed, "default", "default", compiled_for_sk)
        stripped == remove_final_measurements(compiled_for_sk.qc)
        synthesis == SolovayKitaev_run(stripped.ops, backported)
        sk == [ran |-> TRUE, input |-> stripped.ops, out |-> synthesis]
        call2 == CompilerCall("SolovayKitaev", stripped, NoneTarget, 0,
                              FALSE, 0, "", "",
                              IF synthesis.ok
                              THEN CompileOk([stripped EXCEPT !.ops = synthesis.ops])
                              ELSE CompileError(synthesis.err))
        measured == measure_all([stripped EXCEPT !.ops = synthesis.ops])
    IN  IF file_precheck /\ path \in files
        THEN ReturnTrue(<<>>, <<>>, NoSk, {})
        ELSE IF target.isNone
        THEN Raise("AttributeError", "NoneType has no attribute description",
                   <<>>, <<>>, NoSk)
        ELSE IF target.description # ""
        THEN IF ~compiled_for_sk.ok
             THEN Raise(compiled_for_sk.err, "", <<call1>>, <<"transpile">>, NoSk)
             ELSE IF ~synthesis.ok
             THEN Raise(synthesis.err, "", <<call1, call2>>,
                        <<"transpile", "remove_final_measurements",
                          "SolovayKitaev">>, sk)
             ELSE RestrictToTarget(measured, target, opt_level, return_qc, path,
                        <<call1, call2>>,
                        <<"transpile", "remove_final_measurements",
                          "SolovayKitaev", "measure_all">>, sk, draw)
        ELSE RestrictToTarget(qc, target, opt_level, return_qc, path,
                              <<>>, <<>>, NoSk, draw)

get_native_gates_level(qc, target, num_qubits, opt_level, file_precheck, return_qc, target_filename, output_format, files, draw, backported) ==
    LET filename_native ==
            IF target_filename # "" THEN CustomFileName(target_filename)
            ELSE generate_filename(qc.name, "native", num_qubits, target, opt_level)
        path == FilePath(filename_native, output_format)
        clifford_t_rotations == get_native_gateset_by_name("clifford+t+rotations")
        compiled_for_sk == transpile(qc, clifford_t_rotations, opt_level, FixedSeed)
        call1 == CompilerCall("transpile", qc, clifford_t_rotations, opt_level,
                              TRUE, FixedSeed, "default", "default", compiled_for_sk)
        stripped == remove_final_measurements(compiled_for_sk.qc)
        synthesis == SolovayKitaev_run(stripped.ops, backported)
        sk == [ran |-> TRUE, input |-> stripped.ops, out |-> synthesis]
        call2 == CompilerCall("SolovayKitaev", stripped, NoneTarget, 0,
                              FALSE, 0, "", "",
                              IF synthesis.ok
                              THEN CompileOk([stripped EXCEPT !.ops = synthesis.ops])
                              ELSE CompileError(synthesis.err))
        measured == measure_all([stripped EXCEPT !.ops = synthesis.ops])
    IN  IF file_precheck /\ path \in files
        THEN ReturnTrue(<<>>, <<>>, NoSk, {})
        ELSE IF target.isNone
        THEN Raise("AttributeError", "NoneType has no attribute description",
                   <<>>, <<>>, NoSk)
        ELSE IF target.description = "clifford+t"
        THEN IF ~compiled_for_sk.ok
             THEN Raise(compiled_for_sk.err, "", <<call1>>, <<"transpile">>, NoSk)
             ELSE IF ~synthesis.ok
             THEN Raise(synthesis.err, "", <<call1, call2>>,
                        <<"transpile", "remove_final_measurements",
                          "SolovayKitaev">>, sk)
             ELSE RestrictToTarget(measured, target, opt_level, return_qc, path,
                        <<call1, call2>>,
                        <<"transpile", "remove_final_measurements",
                          "SolovayKitaev", "measure_all">>, sk, draw)
        ELSE RestrictToTarget(qc, target, opt_level, return_qc, path,
                              <<>>, <<>>, NoSk, draw)

get_mapped_level(qc, num_qubits, device, opt_level, file_precheck, return_qc, target_filename, output_format, files) ==
    LET filename_mapped ==
            IF target_filename # "" THEN CustomFileName(target_filename)
            ELSE generate_filename(qc.name, "mapped", num_qubits, device, opt_level)
        path == FilePath(filename_mapped, output_format)
        compiled == transpile(qc, device, opt_level, FixedSeed)
        call == CompilerCall("transpile", qc, device, opt_level, TRUE, FixedSeed,
                             "default", "default", compiled)
    IN  IF file_precheck /\ path \in files
        THEN ReturnTrue(<<>>, <<>>, NoSk, {})
        ELSE IF ~compiled.ok
        THEN Raise(compiled.err, "", <<call>>, <<"transpile">>, NoSk)
        ELSE IF return_qc
        THEN ReturnCircuit(compiled.qc, <<call>>, <<"transpile">>, NoSk)
        ELSE save_circuit(path, <<call>>, <<"transpile">>, NoSk)

\* ------------------------------------------------------------------------
\* get_benchmark and get_benchmark_cli (benchmark_generation.py)
\* ------------------------------------------------------------------------
\* a level is given as a string or as a number
LevelStr(s) == [isInt |-> FALSE, s |-> s, i |-> 0]

LevelInt(i) == [isInt |-> TRUE, s |-> "", i |-> i]

\* a list of levels that also admits the tag "native"
get_supported_levels_with_native ==
    <<LevelStr("alg"), LevelStr("indep"), LevelStr("nativegates"),
      LevelStr("mapped"), LevelStr("native"), LevelInt(0), LevelInt(1),
      LevelInt(2), LevelInt(3)>>

get_supported_levels ==
    <<LevelStr("alg"), LevelStr("indep"), LevelStr("nativegates"),
      LevelStr("mapped"), LevelInt(0), LevelInt(1), LevelInt(2), LevelInt(3)>>

get_supported_benchmarks ==
    <<"ae", "bv", "dj", "grover-noancilla", "grover-v-chain", "ghz",
      "graphstate", "qaoa", "qft", "qftentangled", "qnn", "qpeexact",
      "qpeinexact", "qwalk-noancilla", "qwalk-v-chain", "randomcircuit",
      "vqerealamprandom", "vqesu2random", "vqetwolocalrandom", "wstate",
      "shor">>

\* the encoding of Python's None for a string argument
NoneStr == "<None>"

\* the default of QiskitSettings.optimization_level
QiskitSettingsDefault == 1

\* compiler_settings: None, a CompilerSettings (whose qiskit field may be
\* None) or an object of another type
NoneSettings ==
    [kind |-> "None", qiskit_none |-> TRUE, optimization_level |-> 0]

CompilerSettings(optimization_level) ==
    [kind |-> "CompilerSettings", qiskit_none |-> FALSE,
     optimization_level |-> optimization_level]

CompilerSettingsNoQiskit ==
    [kind |-> "CompilerSettings", qiskit_none |-> TRUE, optimization_level |-> 0]

OtherSettings ==
    [kind |-> "other", qiskit_none |-> TRUE, optimization_level |-> 0]

\* benchmarks/wstate.py
RECURSIVE WstateFGates(_, _)
WstateFGates(n, m) ==
    IF m >= n THEN <<>>
    ELSE <<Op("ry", <<n - m - 1>>, "bound"),
           Op("cz", <<n - m, n - m - 1>>, "none"),
           Op("ry", <<n - m - 1>>, "bound")>>
         \o WstateFGates(n, m + 1)

RECURSIVE WstateCxChain(_)
WstateCxChain(k) ==
    IF k < 1 THEN <<>>
    ELSE <<Op("cx", <<k - 1, k>>, "none")>> \o WstateCxChain(k - 1)

wstate_create_circuit(num_qubits) ==
    measure_all(Circuit("wstate", num_qubits,
        <<Op("x", <<num_qubits - 1>>, "none")>>
        \o WstateFGates(num_qubits, 1)
        \o WstateCxChain(num_qubits - 1)))

\* benchmarks/qft.py: the QFT gate over the whole register, then measure_all
qft_create_circuit(num_qubits) ==
    measure_all(Circuit("qft", num_qubits,
        <<Op("qft", [i \in 1..num_qubits |-> i - 1], "none")>>))

\* benchmarks/grover.py: state preparation, the Grover operator raised to
\* the number of iterations (one gate over all qubits), then measure_all
grover_create_circuit(num_qubits) ==
    measure_all(Circuit("grover", num_qubits,
        [i \in 1..(num_qubits - 1) |-> Op("h", <<i - 1>>, "none")]
        \o <<Op("x", <<num_qubits - 1>>, "none")>>
        \o (IF num_qubits >= 2
            THEN <<Op("Q", [i \in 1..num_qubits |-> i - 1], "none")>>
            ELSE <<>>)))

\* the instances of the shor benchmark
ShorInstances == {"xsmall"}

\* lib.create_circuit as get_benchmark calls it
create_circuit(benchmark_name, circuit_size) ==
    CASE benchmark_name = "wstate" -> wstate_create_circuit(circuit_size)
      [] benchmark_name = "qft" -> qft_create_circuit(circuit_size)
      [] benchmark_name \in {"grover-noancilla", "grover-v-chain"} ->
            grover_create_circuit(circuit_size)
      [] benchmark_name = "shor" ->
            measure_all(Circuit("shor", 2,
                <<Op("h", <<0>>, "none"), Op("x", <<1>>, "none"),
                  Op("cu", <<0, 1>>, "none")>>))
      [] OTHER -> measure_all(Circuit(benchmark_name, circuit_size, <<>>))

\* put "create_circuit" in front of the steps of a level function's outcome
AfterCreate(outcome) ==
    [outcome EXCEPT !.steps = <<"create_circuit">> \o outcome.steps]

\* lines 506-537 of get_benchmark: the levels that compile
compiled_levels(qc, level, circuit_size, compiler_settings, target, draw, backported) ==
    LET settings == IF compiler_settings.kind = "None"
                    THEN CompilerSettings(QiskitSettingsDefault)
                    ELSE compiler_settings
        opt_level == settings.optimization_level
    IN  IF compiler_settings.kind = "other"
        THEN Raise("ValueError",
                   "compiler_settings must be of type CompilerSettings or None",
                   <<>>, <<>>, NoSk)
        ELSE IF level \in {LevelStr("indep"), LevelInt(1)}
        THEN get_indep_level(qc, circuit_size, FALSE, TRUE, "", "qasm3", {})
        ELSE IF settings.qiskit_none
        THEN Raise("AssertionError", "", <<>>, <<>>, NoSk)
        ELSE IF level \in {LevelStr("nativegates"), LevelInt(2)}
        THEN get_native_gates_level(qc, target, circuit_size, opt_level, FALSE,
                                    TRUE, "", "qasm3", {}, draw, backported)
        ELSE IF level \in {LevelStr("mapped"), LevelInt(3)}
        THEN get_mapped_level(qc, circuit_size, target, opt_level, FALSE, TRUE,
                              "", "qasm3", {})
        ELSE Raise("ValueError", "Invalid level specified", <<>>, <<>>, NoSk)

\* a dispatch that validates the compiler settings before it looks at the
\* level
level_dispatch_settings_first(qc, level, circuit_size, compiler_settings, target, draw, backported) ==
    IF compiler_settings.kind = "other"
    THEN Raise("ValueError",
               "compiler_settings must be of type CompilerSettings or None",
               <<>>, <<>>, NoSk)
    ELSE IF level \in {LevelStr("alg"), LevelInt(0)}
    THEN ReturnCircuit(qc, <<>>, <<>>, NoSk)
    ELSE compiled_levels(qc, level, circuit_size, compiler_settings, target,
                         draw, backported)

\* lines 503-537 of get_benchmark: the algorithmic level returns the
\* constructed circuit, every other level goes on to the compiler settings
level_dispatch(qc, level, circuit_size, compiler_settings, target, draw, backported) ==
    IF level \in {LevelStr("alg"), LevelInt(0)}
    THEN ReturnCircuit(qc, <<>>, <<>>, NoSk)
    ELSE compiled_levels(qc, level, circuit_size, compiler_settings, target,
                         draw, backported)

\* every supported grover and qwalk name carries its ancillary mode, so the
\* branch of get_benchmark that rejects a name without one is never taken
get_benchmark(benchmark_name, level, circuit_size, benchmark_instance_name, compiler_settings, target, draw, backported) ==
    IF benchmark_name \notin Range(get_supported_benchmarks)
    THEN Raise("ValueError", "Selected benchmark is not supported",
               <<>>, <<>>, NoSk)
    ELSE IF level \notin Range(get_supported_levels)
    THEN Raise("ValueError", "Selected level must be in", <<>>, <<>>, NoSk)
    ELSE IF benchmark_name # "shor"
            /\ ~(circuit_size # NoneSize /\ circuit_size > 0)
    THEN Raise("ValueError", "circuit_size must be None or int",
               <<>>, <<>>, NoSk)
    ELSE IF benchmark_name = "shor" /\ benchmark_instance_name = NoneStr
    THEN Raise("ValueError", "benchmark_instance_name must be defined",
               <<>>, <<>>, NoSk)
    ELSE IF benchmark_name = "shor"
            /\ benchmark_instance_name \notin ShorInstances
    THEN Raise("KeyError", benchmark_instance_name, <<>>, <<>>, NoSk)
    ELSE AfterCreate(level_dispatch(create_circuit(benchmark_name, circuit_size),
                                    level, circuit_size, compiler_settings,
                                    target, draw, backported))

\* the devices get_device_by_name knows in the model
DeviceNames == {"ibm_falcon_27"}

\* get_device_by_name(name): the target of a device, described by its name
get_device_by_name(name) ==
    Target(name, 27, Range(get_ibm_falcon_gateset) \cup GenericBackendExtras, {})

get_benchmark_cli(benchmark_name, level, circuit_size, benchmark_instance_name, compiler_settings, target, draw, backported) ==
    IF level \in {LevelStr("nativegates"), LevelInt(2)}
    THEN IF target \in {"", NoneStr}
         THEN Raise("AssertionError", "", <<>>, <<>>, NoSk)
         ELSE IF target \notin GatesetNames
         THEN Raise("ValueError", "Gateset not found in available gatesets",
                    <<>>, <<>>, NoSk)
         ELSE get_benchmark(benchmark_name, level, circuit_size,
                            benchmark_instance_name, compiler_settings,
                            get_native_gateset_by_name(target), draw, backported)
    ELSE IF level \in {LevelStr("mapped"), LevelInt(3)}
    THEN IF target \in {"", NoneStr}
         THEN Raise("AssertionError", "", <<>>, <<>>, NoSk)
         ELSE IF target \notin DeviceNames
         THEN Raise("ValueError", "Device not found in available devices",
                    <<>>, <<>>, NoSk)
         ELSE get_benchmark(benchmark_name, level, circuit_size,
                            benchmark_instance_name, compiler_settings,
                            get_device_by_name(target), draw, backported)
    ELSE get_benchmark(benchmark_name, level, circuit_size,
                       benchmark_instance_name, compiler_settings,
                       NoneTarget, draw, backported)

\* get_benchmark called with further keyword arguments: **kwargs takes them
\* and the body never reads them
get_benchmark_kwargs(benchmark_name, level, circuit_size, benchmark_instance_name, compiler_settings, target, kwargs, draw, backported) ==
    get_benchmark(benchmark_name, level, circuit_size, benchmark_instance_name,
                  compiler_settings, target, draw, backported)

\* ------------------------------------------------------------------------
\* TargetBuilder: the calls that build a target
\* (targets/gatesets/__init__.py, targets/devices/ionq.py)
\* ------------------------------------------------------------------------
\* the largest qubit count a caller passes to _build_ionq_target
MaxQubits == 3

\* the result of a build call: a target or an exception. The message of an
\* exception is the sequence of the parts its f-string is put together from.
BuildOk(target) ==
    [ok |-> TRUE, err |-> "", msg |-> <<>>, target |-> target]

BuildError(err, msg) ==
    [ok |-> FALSE, err |-> err, msg |-> msg, target |-> NoneTarget]

\* the body of get_target_for_gateset, which functools.cache wraps: the
\* lookup of the name, the loop over the gates that are not standard, and
\* the target of get_target_for_gateset above when neither raises
get_target_for_gateset_body(name, num_qubits) ==
    IF name \notin DOMAIN get_available_native_gatesets
    THEN BuildError("ValueError",
                    <<"Gateset '", name, "' not found in available gatesets.">>)
    ELSE LET gates == get_available_native_gatesets[name]
             unknown == SelectSeq(gates,
                            LAMBDA g : g \notin StandardGateNames
                                       /\ g \notin KnownCustomGates)
         IN  IF unknown # <<>>
             THEN BuildError("ValueError",
                      <<"Gate '", Head(unknown),
                        "' not found in available gatesets.">>)
             ELSE BuildOk(get_target_for_gateset(name, num_qubits))

\* fidelity 1 in the unit of the fidelities of the model, 1e-5; durations
\* are in microseconds
FidelityOne == 100000

InstructionProperties(duration, error) ==
    [duration |-> duration, error |-> error]

\* the properties dictionary of one operation: a record per wires
PropsOn(op, wires, properties) ==
    {[op |-> op, qargs |-> w, duration |-> properties.duration,
      error |-> properties.error] : w \in wires}

\* pairs of qubits in one direction only
connectivity_one_way(num_qubits) ==
    {p \in (0..(num_qubits - 1)) \X (0..(num_qubits - 1)) : p[1] < p[2]}

\* connectivity = [(i, j) for i in range(n) for j in range(n) if i != j]
connectivity(num_qubits) ==
    {p \in (0..(num_qubits - 1)) \X (0..(num_qubits - 1)) : p[1] # p[2]}

_build_ionq_target(num_qubits, description, entangling_gate, oneq_duration, twoq_duration, readout_duration, oneq_fidelity, twoq_fidelity, spam_fidelity) ==
    LET qubits == 0..(num_qubits - 1)
        singleq_wires == {<<q>> : q \in qubits}
        singleq_props ==
            InstructionProperties(oneq_duration, FidelityOne - oneq_fidelity)
        measure_props ==
            InstructionProperties(readout_duration, FidelityOne - spam_fidelity)
        twoq_props ==
            InstructionProperties(twoq_duration, FidelityOne - twoq_fidelity)
        singleq == PropsOn("gpi", singleq_wires, singleq_props)
                   \cup PropsOn("gpi2", singleq_wires, singleq_props)
                   \cup PropsOn("measure", singleq_wires, measure_props)
        target(twoq_name) ==
            [Target(description, num_qubits,
                    {"gpi", "gpi2", "measure", twoq_name}, {})
             EXCEPT !.props = singleq
                        \cup PropsOn(twoq_name, connectivity(num_qubits),
                                       twoq_props)]
    IN  IF entangling_gate = "MS" THEN BuildOk(target("ms"))
        ELSE IF entangling_gate = "ZZ" THEN BuildOk(target("zz"))
        ELSE BuildError("ValueError",
                 <<"Unknown entangling gate: '", entangling_gate, "'.">>)

get_ionq_aria_1_target ==
    _build_ionq_target(25, "ionq_aria_1", "MS", 135, 600, 300,
                       99980, 98720, 99370)

get_ionq_forte_1_target ==
    _build_ionq_target(36, "ionq_forte_1", "ZZ", 130, 970, 150,
                       99980, 99320, 99590)

\* a lookup that builds the Aria target for every name
get_ionq_target_any_name(device_name) ==
    get_ionq_aria_1_target

get_ionq_target(device_name) ==
    IF device_name = "ionq_aria_1" THEN get_ionq_aria_1_target
    ELSE IF device_name = "ionq_forte_1" THEN get_ionq_forte_1_target
    ELSE BuildError("ValueError",
             <<"Unknown IonQ device: '", device_name, "'">>)

\* ------------------------------------------------------------------------
\* EquivalenceRegistry: qiskit's SessionEquivalenceLibrary and the vendor
\* registrations (targets/gatesets/rigetti.py, targets/gatesets/ionq.py,
\* targets/devices/ionq.py)
\* ------------------------------------------------------------------------
\* the operations that rules are registered for
RegistryKeys == {"u", "cx", "gpi", "gpi2", "ms", "zz"}

EmptyRegistry == [key \in RegistryKeys |-> <<>>]

\* a rule, named by the module and the function that builds its circuit
Rule(mod, fn) == [module |-> mod, fn |-> fn]

\* SessionEquivalenceLibrary.add_equivalence(gate, circuit): the circuit is
\* added to the equivalences the library holds for the gate
add_equivalence(library, key, rule) ==
    [library EXCEPT ![key] = Append(@, rule)]

\* what each registration function registers, in its order
RigettiRules ==
    <<<<"u", Rule("gatesets.rigetti", "u_gate_equivalence")>>,
      <<"cx", Rule("gatesets.rigetti", "cx_gate_equivalence")>>>>

IonqRules ==
    <<<<"u", Rule("gatesets.ionq", "u_gate_equivalence")>>,
      <<"cx", Rule("gatesets.ionq", "cx_via_ms_equivalence")>>,
      <<"cx", Rule("gatesets.ionq", "cx_via_zz_equivalence")>>>>

IonqDeviceRules ==
    <<<<"u", Rule("devices.ionq", "u_gate_equivalence")>>,
      <<"cx", Rule("devices.ionq", "cx_via_ms_equivalence")>>,
      <<"cx", Rule("devices.ionq", "cx_via_zz_equivalence")>>,
      <<"gpi", Rule("devices.ionq", "gpi_gate_equivalence")>>,
      <<"gpi2", Rule("devices.ionq", "gpi2_gate_equivalence")>>,
      <<"ms", Rule("devices.ionq", "ms_gate_equivalence")>>,
      <<"zz", Rule("devices.ionq", "zz_gate_equivalence")>>>>

RECURSIVE AddAll(_, _)
AddAll(library, rules) ==
    IF rules = <<>> THEN library
    ELSE AddAll(add_equivalence(library, Head(rules)[1], Head(rules)[2]),
                Tail(rules))

add_rigetti_equivalences(library) == AddAll(library, RigettiRules)

add_ionq_equivalences(library) == AddAll(library, IonqRules)

add_equivalences(library) == AddAll(library, IonqDeviceRules)

\* the vendors whose rules a registration function adds
Vendors == {"gatesets.rigetti", "gatesets.ionq", "devices.ionq"}

VendorRules(vendor) ==
    CASE vendor = "gatesets.rigetti" -> RigettiRules
      [] vendor = "gatesets.ionq" -> IonqRules
      [] OTHER -> IonqDeviceRules

\* the same, had targets/devices/ionq.py left its registration uncalled, as
\* targets/gatesets/ionq.py does
Startup_ionq_never_registered(devices_imported) ==
    [registry |-> add_rigetti_equivalences(EmptyRegistry),
     registrations |-> [v \in Vendors |-> IF v = "gatesets.rigetti" THEN 1 ELSE 0]]

\* the library once the modules are imported: targets/gatesets/rigetti.py
\* and targets/devices/ionq.py register at module level, the latter only
\* when the devices are imported
Startup(devices_imported) ==
    [registry |->
        IF devices_imported
        THEN add_equivalences(add_rigetti_equivalences(EmptyRegistry))
        ELSE add_rigetti_equivalences(EmptyRegistry),
     registrations |->
        [v \in Vendors |->
            IF v = "gatesets.rigetti" \/ (v = "devices.ionq" /\ devices_imported)
            THEN 1 ELSE 0]]

\* the calibration constants of a build call: the durations of a one-qubit
\* gate, a two-qubit gate and the readout, then their fidelities
NoCalibration == <<0, 0, 0, 0, 0, 0>>

\* a call to the catalog, the builder or the registry: its arguments, its
\* result out, the object returned (ref, 0 when none), whether it came from
\* the cache, the gateset returned and the library as the call found it
TargetCall(api, name, num_qubits, entangling_gate, calibration, out, ref, cached, value, before) ==
    [api |-> api, name |-> name, num_qubits |-> num_qubits,
     entangling_gate |-> entangling_gate, calibration |-> calibration,
     ok |-> out.ok, err |-> out.err, msg |-> out.msg, target |-> out.target,
     ref |-> ref, cached |-> cached, value |-> value,
     registry_before |-> before]

\* the call to the builder that a run makes, and may repeat
TargetRequest(api, name, num_qubits, entangling_gate, calibration) ==
    [api |-> api, name |-> name, num_qubits |-> num_qubits,
     entangling_gate |-> entangling_gate, calibration |-> calibration]

NoTargetRequest == TargetRequest("none", "", 0, "", NoCalibration)

NoTargetCall ==
    TargetCall("none", "", 0, "", NoCalibration, BuildOk(NoneTarget), 0,
               FALSE, <<>>, EmptyRegistry)

\* ------------------------------------------------------------------------
\* Exact arithmetic for gate matrices.  Angles are whole multiples of pi/Pi
\* radians, a gate parameter x stands for the number x/Pi, so that the
\* angle x * np.pi of the source is x units.  A complex number is an
\* element of the ring Z[zeta], zeta = exp(i * pi / Pi): the function of its
\* integer coefficients on zeta^0 .. zeta^(Pi-1), with zeta^Pi = -1.
\* ------------------------------------------------------------------------
\* np.pi, in units of angle
Pi == 8

Coeffs == 0..(Pi - 1)

CZero == [m \in Coeffs |-> 0]

\* exp(i * a) for an angle a
Zeta(a) ==
    LET r == a % (2 * Pi)
    IN  [m \in Coeffs |-> IF r = m THEN 1 ELSE IF r = m + Pi THEN -1 ELSE 0]

COne == Zeta(0)

CAdd(x, y) == [m \in Coeffs |-> x[m] + y[m]]

CNeg(x) == [m \in Coeffs |-> -x[m]]

CSub(x, y) == CAdd(x, CNeg(y))

CScale(k, x) == [m \in Coeffs |-> k * x[m]]

\* the sum of f[0] .. f[n] of integers
RECURSIVE IntSum(_, _)
IntSum(f, n) == IF n < 0 THEN 0 ELSE f[n] + IntSum(f, n - 1)

\* the product: zeta^i * zeta^j = zeta^(i+j), and zeta^Pi = -1
CMul(x, y) ==
    [m \in Coeffs |->
        IntSum([i \in Coeffs |->
                   IF i <= m THEN x[i] * y[m - i]
                   ELSE -(x[i] * y[m - i + Pi])], Pi - 1)]

\* the complex conjugate: zeta^(-m) = -zeta^(Pi-m)
CConj(x) == [m \in Coeffs |-> IF m = 0 THEN x[0] ELSE -x[Pi - m]]

\* the sum of f[0] .. f[n] of ring elements
RECURSIVE CSum(_, _)
CSum(f, n) == IF n < 0 THEN CZero ELSE CAdd(f[n], CSum(f, n - 1))

\* 2 * cos(a) and 2 * sin(a) for an angle a; 1j is Zeta(Pi / 2)
TwoCos(a) == CAdd(Zeta(a), Zeta(-a))

TwoSin(a) == CMul(Zeta(-(Pi \div 2)), CSub(Zeta(a), Zeta(-a)))

\* a matrix of dimension dim: the entries m[r][c] divided by den
Matrix(dim, den, m) == [dim |-> dim, den |-> den, m |-> m]

Idx(dim) == 0..(dim - 1)

\* the matrix product a @ b
MatMul(a, b) ==
    Matrix(a.dim, a.den * b.den,
           [r \in Idx(a.dim) |-> [c \in Idx(a.dim) |->
               CSum([k \in Idx(a.dim) |-> CMul(a.m[r][k], b.m[k][c])],
                    a.dim - 1)]])

Identity(dim) ==
    Matrix(dim, 1, [r \in Idx(dim) |-> [c \in Idx(dim) |->
                      IF r = c THEN COne ELSE CZero]])

\* bit q of a basis state; qubit 0 is the least significant bit
Bit(b, q) == (b \div (2 ^ q)) % 2

\* the basis states r and c agree on every qubit but q
SameButFor(r, c, q, n) == \A k \in 0..(n - 1) : k = q \/ Bit(r, k) = Bit(c, k)

\* the matrix on n qubits of the one-qubit matrix u applied to qubit q
OnQubit(u, q, n) ==
    Matrix(2 ^ n, u.den,
           [r \in Idx(2 ^ n) |-> [c \in Idx(2 ^ n) |->
               IF SameButFor(r, c, q, n)
               THEN u.m[Bit(r, q)][Bit(c, q)] ELSE CZero]])

\* the matrix on n qubits of u applied to target when control is 1
Controlled(u, control, target, n) ==
    Matrix(2 ^ n, u.den,
           [r \in Idx(2 ^ n) |-> [c \in Idx(2 ^ n) |->
               IF Bit(c, control) = 0
               THEN IF r = c THEN CScale(u.den, COne) ELSE CZero
               ELSE IF SameButFor(r, c, target, n)
                    THEN u.m[Bit(r, target)][Bit(c, target)] ELSE CZero]])

\* the matrices of the standard gates (qiskit.circuit.library)
Rows2(a, b, c, d) == (0 :> (0 :> a @@ 1 :> b) @@ 1 :> (0 :> c @@ 1 :> d))

XGate == Matrix(2, 1, Rows2(CZero, COne, COne, CZero))

\* RZ(lam) = diag(exp(-i lam/2), exp(i lam/2))
RZGate(lam) ==
    Matrix(2, 1, Rows2(Zeta(-(lam \div 2)), CZero, CZero, Zeta(lam \div 2)))

\* RX(theta) = [[cos(theta/2), -i sin(theta/2)], [-i sin(theta/2), cos(theta/2)]]
RXGate(theta) ==
    LET h == theta \div 2
        misin == CMul(Zeta(-(Pi \div 2)), TwoSin(h))
    IN  Matrix(2, 2, Rows2(TwoCos(h), misin, misin, TwoCos(h)))

\* U(theta, phi, lam) scaled by exp(i gamma), the matrix CU applies to its
\* target: [[cos(theta/2), -exp(i lam) sin(theta/2)],
\*          [exp(i phi) sin(theta/2), exp(i (phi + lam)) cos(theta/2)]]
UGate(theta, phi, lam, gamma) ==
    LET h == theta \div 2
        g == Zeta(gamma)
    IN  Matrix(2, 2,
               Rows2(CMul(g, TwoCos(h)),
                     CNeg(CMul(g, CMul(Zeta(lam), TwoSin(h)))),
                     CMul(g, CMul(Zeta(phi), TwoSin(h))),
                     CMul(g, CMul(Zeta(phi + lam), TwoCos(h)))))

\* an instruction of a definition circuit: a gate, its angles, its wires
Instr(name, params, qubits) ==
    [name |-> name, params |-> params, qubits |-> qubits]

\* the matrix of an instruction in a circuit of n qubits
InstrMatrix(ins, n) ==
    CASE ins.name = "x" -> OnQubit(XGate, ins.qubits[1], n)
      [] ins.name = "rz" -> OnQubit(RZGate(ins.params[1]), ins.qubits[1], n)
      [] ins.name = "rx" -> OnQubit(RXGate(ins.params[1]), ins.qubits[1], n)
      [] ins.name = "cx" ->
            Controlled(XGate, ins.qubits[1], ins.qubits[2], n)
      [] ins.name = "cu" ->
            Controlled(UGate(ins.params[1], ins.params[2], ins.params[3],
                             ins.params[4]),
                       ins.qubits[1], ins.qubits[2], n)

\* Operator(circuit): the product of the instructions' matrices, the
\* first instruction applied first
RECURSIVE CircuitUnitary(_, _)
CircuitUnitary(ops, n) ==
    IF ops = <<>> THEN Identity(2 ^ n)
    ELSE MatMul(CircuitUnitary(Tail(ops), n), InstrMatrix(Head(ops), n))

\* ------------------------------------------------------------------------
\* The custom gates (targets/gatesets/ionq.py, targets/gatesets/rigetti.py):
\* _define, the definition circuit, and __array__, the closed-form matrix
\* ------------------------------------------------------------------------
\* rz(2 * phi * pi) in place of rz(4 * phi * pi)
GPIGate_define_two_phi(phi) ==
    <<Instr("x", <<>>, <<0>>), Instr("rz", <<2 * phi>>, <<0>>)>>

GPIGate_define(phi) ==
    <<Instr("x", <<>>, <<0>>), Instr("rz", <<4 * phi>>, <<0>>)>>

GPIGate_array(phi) ==
    Matrix(2, 1, Rows2(CZero, Zeta(-(2 * phi)), Zeta(2 * phi), CZero))

GPI2Gate_define(phi) ==
    <<Instr("rz", <<-(2 * phi)>>, <<0>>),
      Instr("rx", <<Pi \div 2>>, <<0>>),
      Instr("rz", <<2 * phi>>, <<0>>)>>

\* 1 / sqrt(2) is sqrt(2) / 2, and sqrt(2) is 2 * cos(pi / 4)
GPI2Gate_array(phi) ==
    LET sqrt2 == TwoCos(Pi \div 4)
        mi == Zeta(-(Pi \div 2))
    IN  Matrix(2, 2,
               Rows2(sqrt2, CMul(sqrt2, CMul(mi, Zeta(-(2 * phi)))),
                     CMul(sqrt2, CMul(mi, Zeta(2 * phi))), sqrt2))

\* the two cu gates left out when theta is 0, where both are the identity
MSGate_define_skip_zero_theta(phi0, phi1, theta) ==
    LET alpha == phi0 + phi1
        beta == phi0 - phi1
    IN  IF theta = 0
        THEN <<Instr("cx", <<>>, <<1, 0>>), Instr("x", <<>>, <<0>>),
               Instr("x", <<>>, <<0>>), Instr("cx", <<>>, <<1, 0>>)>>
        ELSE <<Instr("cx", <<>>, <<1, 0>>),
               Instr("x", <<>>, <<0>>),
               Instr("cu", <<2 * theta, 2 * alpha - Pi \div 2,
                             Pi \div 2 - 2 * alpha, 0>>, <<0, 1>>),
               Instr("x", <<>>, <<0>>),
               Instr("cu", <<2 * theta, -(2 * beta) - Pi \div 2,
                             Pi \div 2 + 2 * beta, 0>>, <<0, 1>>),
               Instr("cx", <<>>, <<1, 0>>)>>

MSGate_define(phi0, phi1, theta) ==
    LET alpha == phi0 + phi1
        beta == phi0 - phi1
    IN  <<Instr("cx", <<>>, <<1, 0>>),
          Instr("x", <<>>, <<0>>),
          Instr("cu", <<2 * theta, 2 * alpha - Pi \div 2,
                        Pi \div 2 - 2 * alpha, 0>>, <<0, 1>>),
          Instr("x", <<>>, <<0>>),
          Instr("cu", <<2 * theta, -(2 * beta) - Pi \div 2,
                        Pi \div 2 + 2 * beta, 0>>, <<0, 1>>),
          Instr("cx", <<>>, <<1, 0>>)>>

MSGate_array(phi0, phi1, theta) ==
    LET diag == TwoCos(theta)
        sin == TwoSin(theta)
        mi == Zeta(-(Pi \div 2))
        e(a) == CMul(sin, CMul(mi, Zeta(a)))
    IN  Matrix(4, 2,
               (0 :> (0 :> diag @@ 1 :> CZero @@ 2 :> CZero
                        @@ 3 :> e(-(2 * (phi0 + phi1))))
                @@ 1 :> (0 :> CZero @@ 1 :> diag
                           @@ 2 :> e(2 * (phi0 - phi1)) @@ 3 :> CZero)
                @@ 2 :> (0 :> CZero @@ 1 :> e(-(2 * (phi0 - phi1)))
                           @@ 2 :> diag @@ 3 :> CZero)
                @@ 3 :> (0 :> e(2 * (phi0 + phi1)) @@ 1 :> CZero
                           @@ 2 :> CZero @@ 3 :> diag)))

ZZGate_define(theta) ==
    <<Instr("cx", <<>>, <<0, 1>>),
      Instr("rz", <<2 * theta>>, <<1>>),
      Instr("cx", <<>>, <<0, 1>>)>>

ZZGate_array(theta) ==
    Matrix(4, 1,
           [r \in Idx(4) |-> [c \in Idx(4) |->
               IF r # c THEN CZero
               ELSE IF r \in {0, 3} THEN Zeta(-theta) ELSE Zeta(theta)]])

RXPiGate_define == <<Instr("rx", <<Pi>>, <<0>>)>>

RXPiGate_array == RXGate(Pi)

RXPiOver2Gate_define == <<Instr("rx", <<Pi \div 2>>, <<0>>)>>

RXPiOver2Gate_array == RXGate(Pi \div 2)

RXMinusPiOver2Gate_define == <<Instr("rx", <<-(Pi \div 2)>>, <<0>>)>>

RXMinusPiOver2Gate_array == RXGate(-(Pi \div 2))

\* the custom gates by name, with the number of their parameters and qubits
CustomGates ==
    {"gpi", "gpi2", "ms", "zz", "rx_pi", "rx_pi_2", "rx_minus_pi_2"}

GateNumParams(gate) ==
    CASE gate \in {"gpi", "gpi2", "zz"} -> 1
      [] gate = "ms" -> 3
      [] OTHER -> 0

GateNumQubits(gate) == IF gate \in {"ms", "zz"} THEN 2 ELSE 1

\* gate.definition
definition(gate, params) ==
    CASE gate = "gpi" -> GPIGate_define(params[1])
      [] gate = "gpi2" -> GPI2Gate_define(params[1])
      [] gate = "ms" -> MSGate_define(params[1], params[2], params[3])
      [] gate = "zz" -> ZZGate_define(params[1])
      [] gate = "rx_pi" -> RXPiGate_define
      [] gate = "rx_pi_2" -> RXPiOver2Gate_define
      [] gate = "rx_minus_pi_2" -> RXMinusPiOver2Gate_define

\* gate.__array__()
to_matrix(gate, params) ==
    CASE gate = "gpi" -> GPIGate_array(params[1])
      [] gate = "gpi2" -> GPI2Gate_array(params[1])
      [] gate = "ms" -> MSGate_array(params[1], params[2], params[3])
      [] gate = "zz" -> ZZGate_array(params[1])
      [] gate = "rx_pi" -> RXPiGate_array
      [] gate = "rx_pi_2" -> RXPiOver2Gate_array
      [] gate = "rx_minus_pi_2" -> RXMinusPiOver2Gate_array

\* ------------------------------------------------------------------------
\* The state machine: a caller issues one request and repeats it
\* ------------------------------------------------------------------------
VARIABLES
    req,        \* the request: the function called and its arguments
    backported, \* the installed Qiskit is 2.0.0 or newer
    res,        \* the outcome of the latest call
    first,      \* the outcome of the first call
    ncalls,     \* the number of calls made
    files,      \* the files in the target directory
    registry,        \* the SessionEquivalenceLibrary: the rules of each key
    registrations,   \* how often each vendor's registration has run
    gatesets_cached, \* the cache of get_available_native_gatesets is filled
    heap,            \* the Target objects that get_target_for_gateset built
    target_cache,    \* the cache of get_target_for_gateset
    treq,            \* the call to the builder that the run makes
    tres,            \* the latest call to the catalog, builder or registry
    tcalls,          \* the number of such calls
    greq,            \* the custom gate that the run builds: name, parameters
    gres             \* the gate's definition, its unitary and its matrix

\* the variables of the level pipeline and those of the targets
pvars == <<req, backported, res, first, ncalls, files>>

tvars ==
    <<registry, registrations, gatesets_cached, heap, target_cache, treq,
      tres, tcalls>>

\* the variables of the custom gates
gvars == <<greq, gres>>

vars == <<pvars, tvars, gvars>>

\* a custom gate with its parameters, and what a run computes from it
GateRequest(name, params) == [name |-> name, params |-> params]

GateResult(name, params, defn, operator, array) ==
    [name |-> name, params |-> params, definition |-> defn,
     operator |-> operator, array |-> array]

NoGateRequest == GateRequest("none", <<>>)

NoGateResult == GateResult("none", <<>>, <<>>, Identity(1), Identity(1))

\* no custom gate is built
GatesIdle == greq = NoGateRequest /\ gres = NoGateResult

\* the targets' side of the state as the imports leave it
TargetsAtStartup(devices_imported) ==
    /\ registry = Startup(devices_imported).registry
    /\ registrations = Startup(devices_imported).registrations
    /\ gatesets_cached = FALSE
    /\ heap = <<>>
    /\ target_cache = {}
    /\ tres = NoTargetCall
    /\ tcalls = 0

NoOutcome == Outcome("none", NoCircuit, "", "", <<>>, <<>>, NoSk, {})

Request(api, benchmark_name, level, circuit_size, benchmark_instance_name, compiler_settings, target, target_name, qc, opt_level, file_precheck, return_qc) ==
    [api |-> api, benchmark_name |-> benchmark_name, level |-> level,
     circuit_size |-> circuit_size,
     benchmark_instance_name |-> benchmark_instance_name,
     compiler_settings |-> compiler_settings, target |-> target,
     target_name |-> target_name, qc |-> qc, opt_level |-> opt_level,
     file_precheck |-> file_precheck, return_qc |-> return_qc]

\* the inputs the requests are drawn from
BenchmarkInputs == {"wstate", "qft", "grover-noancilla", "shor", "nosuch"}

LevelInputs ==
    Range(get_supported_levels)
    \cup {LevelStr("native"), LevelInt(4), LevelInt(-1)}

SizeInputs == {NoneSize} \cup 0..MaxSize

InstanceInputs == {NoneStr, "xsmall", "nosuch"}

OptLevelInputs == -1..4

SettingsInputs ==
    {NoneSettings, CompilerSettingsNoQiskit, OtherSettings}
    \cup {CompilerSettings(o) : o \in OptLevelInputs}

TargetInputs ==
    {NoneTarget, get_target_for_gateset("ibm_falcon", 3),
     get_target_for_gateset("clifford+t", 3)}

TargetNameInputs ==
    {"", NoneStr, "ibm_falcon", "clifford+t", "ibm_falcon_27", "nosuch"}

\* the instance name matters to shor only and the size to the others
InstanceAndSizeFit(benchmark_name, circuit_size, benchmark_instance_name) ==
    IF benchmark_name = "shor" THEN circuit_size = NoneSize
    ELSE benchmark_instance_name = NoneStr

BenchmarkRequests ==
    {Request("get_benchmark", bn, lv, sz, inst, cs, tg, "", NoCircuit, 0,
             FALSE, TRUE) :
        <<bn, lv, sz, inst, cs, tg>> \in
            {t \in BenchmarkInputs \X LevelInputs \X SizeInputs
                   \X InstanceInputs \X SettingsInputs \X TargetInputs :
                InstanceAndSizeFit(t[1], t[3], t[4])}}

CliRequests ==
    {Request("get_benchmark_cli", bn, lv, sz, inst, cs, NoneTarget, tn,
             NoCircuit, 0, FALSE, TRUE) :
        <<bn, lv, sz, inst, cs, tn>> \in
            {t \in BenchmarkInputs \X LevelInputs \X SizeInputs
                   \X InstanceInputs \X SettingsInputs \X TargetNameInputs :
                InstanceAndSizeFit(t[1], t[3], t[4])}}

Init ==
    /\ req \in BenchmarkRequests \cup CliRequests
    /\ backported \in BOOLEAN
    /\ res = NoOutcome
    /\ first = NoOutcome
    /\ ncalls = 0
    /\ files = {}
    /\ treq = NoTargetRequest
    /\ TargetsAtStartup(TRUE)
    /\ GatesIdle

\* the bookkeeping of one finished call
Finish(outcome) ==
    /\ res' = outcome
    /\ first' = IF ncalls = 0 THEN outcome ELSE first
    /\ ncalls' = ncalls + 1
    /\ files' = files \cup outcome.written
    /\ UNCHANGED <<req, backported>>
    /\ UNCHANGED <<tvars, gvars>>

GetBenchmark ==
    /\ req.api = "get_benchmark"
    /\ ncalls < MaxCalls
    /\ \E draw \in Draws :
          Finish(get_benchmark(req.benchmark_name, req.level, req.circuit_size,
                               req.benchmark_instance_name,
                               req.compiler_settings, req.target, draw,
                               backported))

GetBenchmarkCli ==
    /\ req.api = "get_benchmark_cli"
    /\ ncalls < MaxCalls
    /\ \E draw \in Draws :
          Finish(get_benchmark_cli(req.benchmark_name, req.level,
                                   req.circuit_size,
                                   req.benchmark_instance_name,
                                   req.compiler_settings, req.target_name,
                                   draw, backported))

Next == GetBenchmark \/ GetBenchmarkCli

Spec == Init /\ [][Next]_vars

\* ------------------------------------------------------------------------
\* Direct calls of get_native_gates_level on a circuit the caller built
\* ------------------------------------------------------------------------
OpAlphabet ==
    {Op("h", <<0>>, "none"), Op("ry", <<0>>, "bound"), Op("rz", <<1>>, "free"),
     Op("cx", <<0, 1>>, "none"), Op("reset", <<0>>, "none"), Measure(0, 0),
     Barrier(<<1>>)}

CallerCircuits ==
    {Circuit("user", 2, ops) :
        ops \in UNION {[1..k -> OpAlphabet] : k \in 0..MaxOps}}

NativeRequests ==
    {Request("get_native_gates_level", "", LevelStr("nativegates"), 2, NoneStr,
             NoneSettings, tg, "", qc, o, fp, rq) :
        <<tg, qc, o, fp, rq>> \in
            TargetInputs \X CallerCircuits \X OptLevelInputs \X BOOLEAN \X BOOLEAN}

InitNative ==
    /\ req \in NativeRequests
    /\ backported \in BOOLEAN
    /\ res = NoOutcome
    /\ first = NoOutcome
    /\ ncalls = 0
    /\ files = {}
    /\ treq = NoTargetRequest
    /\ TargetsAtStartup(TRUE)
    /\ GatesIdle

GetNativeGatesLevel ==
    /\ req.api = "get_native_gates_level"
    /\ ncalls < MaxCalls
    /\ \E draw \in Draws :
          Finish(get_native_gates_level(req.qc, req.target, req.circuit_size,
                                        req.opt_level, req.file_precheck,
                                        req.return_qc, "", "qasm3", files,
                                        draw, backported))

NextNative == GetNativeGatesLevel

SpecNative == InitNative /\ [][NextNative]_vars

\* ------------------------------------------------------------------------
\* Calls to the catalog, the target builder and the registry
\* ------------------------------------------------------------------------
\* the number of calls of a run
MaxTargetCalls == 2

GatesetNameInputs == GatesetNames \cup {"nosuch"}

QubitCountInputs == 2..MaxQubits

DeviceNameInputs ==
    {"ionq_aria_1", "ionq_forte_1", "ionq_aria_25", "unknown_device"}

EntanglingGateInputs == {"MS", "ZZ", "wrong_gate"}

\* the constants of Aria 1, those of the test (all zero), perfect
\* fidelities, and constants outside their ranges
CalibrationInputs ==
    {<<135, 600, 300, 99980, 98720, 99370>>,
     <<0, 0, 0, 0, 0, 0>>,
     <<0, 0, 0, FidelityOne, FidelityOne, FidelityOne>>,
     <<-1, -1, -1, 150000, 150000, 150000>>}

\* the functions that return the gateset of one vendor
GatesetGetters ==
    [getter \in {"get_ibm_falcon_gateset", "get_ibm_eagle_gateset",
                 "get_ibm_heron_gateset", "get_iqm_gateset",
                 "get_quantinuum_gateset", "get_rigetti_gateset",
                 "get_clifford_t_gateset",
                 "get_clifford_t_rotations_gateset"} |->
        CASE getter = "get_ibm_falcon_gateset" -> get_ibm_falcon_gateset
          [] getter = "get_ibm_eagle_gateset" -> get_ibm_eagle_gateset
          [] getter = "get_ibm_heron_gateset" -> get_ibm_heron_gateset
          [] getter = "get_iqm_gateset" -> get_iqm_gateset
          [] getter = "get_quantinuum_gateset" -> get_quantinuum_gateset
          [] getter = "get_rigetti_gateset" -> get_rigetti_gateset
          [] getter = "get_clifford_t_gateset" -> get_clifford_t_gateset
          [] OTHER -> get_clifford_t_rotations_gateset]

TargetRequests ==
    {NoTargetRequest}
    \cup {TargetRequest("get_target_for_gateset", name, n, "", NoCalibration) :
            name \in GatesetNameInputs, n \in QubitCountInputs}
    \cup {TargetRequest("get_ionq_target", name, 0, "", NoCalibration) :
            name \in DeviceNameInputs}
    \cup {TargetRequest("_build_ionq_target", "test", n, g, c) :
            n \in QubitCountInputs, g \in EntanglingGateInputs,
            c \in CalibrationInputs}

\* the pipeline is not called
IdleRequest ==
    Request("none", "", LevelStr("alg"), NoneSize, NoneStr, NoneSettings,
            NoneTarget, "", NoCircuit, 0, FALSE, FALSE)

InitTargets ==
    /\ req = IdleRequest
    /\ backported = TRUE
    /\ res = NoOutcome
    /\ first = NoOutcome
    /\ ncalls = 0
    /\ files = {}
    /\ treq \in TargetRequests
    /\ \E devices_imported \in BOOLEAN : TargetsAtStartup(devices_imported)
    /\ GatesIdle

\* a call that returns no target
PlainCall(api, name, value) ==
    TargetCall(api, name, 0, "", NoCalibration, BuildOk(NoneTarget), 0, FALSE,
               value, registry)

\* the bookkeeping of a call that runs the registration of a vendor
Registered(vendor, library, call) ==
    /\ registry' = library
    /\ registrations' = [registrations EXCEPT ![vendor] = @ + 1]
    /\ tres' = call
    /\ tcalls' = tcalls + 1

AddRigettiEquivalences ==
    /\ tcalls < MaxTargetCalls
    /\ Registered("gatesets.rigetti", add_rigetti_equivalences(registry),
                  PlainCall("add_rigetti_equivalences", "", <<>>))
    /\ UNCHANGED <<gatesets_cached, heap, target_cache>>
    /\ UNCHANGED <<pvars, gvars, treq>>

AddIonqEquivalences ==
    /\ tcalls < MaxTargetCalls
    /\ Registered("gatesets.ionq", add_ionq_equivalences(registry),
                  PlainCall("add_ionq_equivalences", "", <<>>))
    /\ UNCHANGED <<gatesets_cached, heap, target_cache>>
    /\ UNCHANGED <<pvars, gvars, treq>>

AddEquivalences ==
    /\ tcalls < MaxTargetCalls
    /\ Registered("devices.ionq", add_equivalences(registry),
                  PlainCall("add_equivalences", "", <<>>))
    /\ UNCHANGED <<gatesets_cached, heap, target_cache>>
    /\ UNCHANGED <<pvars, gvars, treq>>

\* get_<vendor>_gateset(): get_rigetti_gateset runs add_rigetti_equivalences
\* before it returns its list, the others only return theirs
GetVendorGateset ==
    /\ tcalls < MaxTargetCalls
    /\ \E getter \in DOMAIN GatesetGetters :
          LET call == PlainCall(getter, "", GatesetGetters[getter])
          IN  IF getter = "get_rigetti_gateset"
              THEN Registered("gatesets.rigetti",
                              add_rigetti_equivalences(registry), call)
              ELSE /\ tres' = call
                   /\ tcalls' = tcalls + 1
                   /\ UNCHANGED <<registry, registrations>>
    /\ UNCHANGED <<gatesets_cached, heap, target_cache>>
    /\ UNCHANGED <<pvars, gvars, treq>>

\* get_available_native_gatesets(): the first call builds the dictionary,
\* calling every vendor's function, and functools.cache keeps it
FillGatesetCache(call) ==
    /\ IF gatesets_cached
       THEN /\ tres' = call
            /\ tcalls' = tcalls + 1
            /\ UNCHANGED <<registry, registrations>>
       ELSE Registered("gatesets.rigetti",
                       add_rigetti_equivalences(registry), call)
    /\ gatesets_cached' = TRUE

GetAvailableNativeGatesets ==
    /\ tcalls < MaxTargetCalls
    /\ FillGatesetCache(PlainCall("get_available_native_gatesets", "", <<>>))
    /\ UNCHANGED <<heap, target_cache>>
    /\ UNCHANGED <<pvars, gvars, treq>>

\* get_target_for_gateset(name, num_qubits) under functools.cache: a call
\* with arguments seen before returns the object built then, any other call
\* runs the body and keeps the object it returns
GetTargetForGateset ==
    /\ tcalls < MaxTargetCalls
    /\ treq.api = "get_target_for_gateset"
    /\ LET name == treq.name
           num_qubits == treq.num_qubits
       IN
          LET hit == {c \in target_cache :
                          c.name = name /\ c.num_qubits = num_qubits}
              cached_ref == (CHOOSE c \in hit : TRUE).ref
              out == get_target_for_gateset_body(name, num_qubits)
              new_ref == Len(heap) + 1
          IN  IF hit # {}
              THEN /\ tres' = TargetCall("get_target_for_gateset", name,
                                  num_qubits, "", NoCalibration,
                                  BuildOk(heap[cached_ref]), cached_ref, TRUE,
                                  <<>>, registry)
                   /\ tcalls' = tcalls + 1
                   /\ UNCHANGED <<registry, registrations, gatesets_cached,
                                  heap, target_cache>>
              ELSE /\ FillGatesetCache(
                          TargetCall("get_target_for_gateset", name,
                              num_qubits, "", NoCalibration, out,
                              IF out.ok THEN new_ref ELSE 0, FALSE, <<>>,
                              registry))
                   /\ heap' = IF out.ok THEN Append(heap, out.target) ELSE heap
                   /\ target_cache' =
                          IF out.ok
                          THEN target_cache
                               \cup {[name |-> name, num_qubits |-> num_qubits,
                                      ref |-> new_ref]}
                          ELSE target_cache
    /\ UNCHANGED <<pvars, gvars, treq>>

\* the caller changes the target it has just received: it sets the
\* description or adds an instruction
MutateTarget ==
    /\ tres.api = "get_target_for_gateset"
    /\ tres.ref \in DOMAIN heap
    /\ \/ /\ heap[tres.ref].description # "mutated"
          /\ heap' = [heap EXCEPT ![tres.ref].description = "mutated"]
       \/ /\ "extra" \notin heap[tres.ref].without_props
          /\ heap' = [heap EXCEPT ![tres.ref].without_props = @ \cup {"extra"}]
    /\ UNCHANGED <<registry, registrations, gatesets_cached, target_cache,
                   tres, tcalls>>
    /\ UNCHANGED <<pvars, gvars, treq>>

GetIonqTarget ==
    /\ tcalls < MaxTargetCalls
    /\ treq.api = "get_ionq_target"
    /\ tres' = TargetCall("get_ionq_target", treq.name, 0, "", NoCalibration,
                          get_ionq_target(treq.name), 0, FALSE, <<>>, registry)
    /\ tcalls' = tcalls + 1
    /\ UNCHANGED <<registry, registrations, gatesets_cached, heap,
                   target_cache>>
    /\ UNCHANGED <<pvars, gvars, treq>>

BuildIonqTarget ==
    /\ tcalls < MaxTargetCalls
    /\ treq.api = "_build_ionq_target"
    /\ LET c == treq.calibration
       IN  tres' = TargetCall("_build_ionq_target", treq.name, treq.num_qubits,
                       treq.entangling_gate, c,
                       _build_ionq_target(treq.num_qubits, treq.name,
                           treq.entangling_gate, c[1], c[2], c[3], c[4], c[5],
                           c[6]),
                       0, FALSE, <<>>, registry)
    /\ tcalls' = tcalls + 1
    /\ UNCHANGED <<registry, registrations, gatesets_cached, heap,
                   target_cache>>
    /\ UNCHANGED <<pvars, gvars, treq>>

NextTargets ==
    \/ AddRigettiEquivalences
    \/ AddIonqEquivalences
    \/ AddEquivalences
    \/ GetVendorGateset
    \/ GetAvailableNativeGatesets
    \/ GetTargetForGateset
    \/ MutateTarget
    \/ GetIonqTarget
    \/ BuildIonqTarget

SpecTargets == InitTargets /\ [][NextTargets]_vars

\* ------------------------------------------------------------------------
\* Custom gates: a run builds one gate, takes its definition and compares
\* the unitary of the definition with the gate's matrix
\* ------------------------------------------------------------------------
\* the largest absolute value of a parameter, in units of 1/Pi
MaxParam == 2

ParamInputs == (-MaxParam)..MaxParam

\* the parameter lists of a gate
ParamTuples(gate) == [1..GateNumParams(gate) -> ParamInputs]

GateRequests ==
    {GateRequest(g, ps) : g \in CustomGates, ps \in UNION {ParamTuples(k) : k \in CustomGates}}

InitGates ==
    /\ req = IdleRequest
    /\ backported = TRUE
    /\ res = NoOutcome
    /\ first = NoOutcome
    /\ ncalls = 0
    /\ files = {}
    /\ treq = NoTargetRequest
    /\ TargetsAtStartup(TRUE)
    /\ greq \in {r \in GateRequests : r.params \in ParamTuples(r.name)}
    /\ gres = NoGateResult

\* gate.definition, Operator(gate.definition) and gate.to_matrix()
BuildGate ==
    /\ gres = NoGateResult
    /\ LET defn == definition(greq.name, greq.params)
       IN  gres' = GateResult(greq.name, greq.params, defn,
                              CircuitUnitary(defn, GateNumQubits(greq.name)),
                              to_matrix(greq.name, greq.params))
    /\ UNCHANGED <<pvars, tvars, greq>>

NextGates == BuildGate

SpecGates == InitGates /\ [][NextGates]_vars

\* ------------------------------------------------------------------------
\* Iterative quantum phase estimation (benchmarks/iqpe_exact.py)
\* ------------------------------------------------------------------------
\* a circuit with its classical register
ClassicalCircuit(name, n, num_clbits, ops) ==
    [name |-> name, num_qubits |-> n, num_clbits |-> num_clbits, ops |-> ops,
     layout |-> <<>>]

\* lines 85-90: the k phase corrections of iteration k, each an IfElseOp on
\* the ancilla q[0]
IqpeCorrections(k) == [i \in 1..k |-> Op("if_else", <<0>>, "bound")]

\* lines 69-94: iteration k resets the ancilla, applies h, the controlled
\* phase on q[0] and q[1], the corrections, h, and measures into c[index]
IqpeIteration(k, num_bits) ==
    <<Op("reset", <<0>>, "none"), Op("h", <<0>>, "none"),
      Op("cp", <<0, 1>>, "bound")>>
    \o IqpeCorrections(k)
    \o <<Op("h", <<0>>, "none"), Measure(0, num_bits - 1 - k)>>

\* the sides of the merge that lines 38-52 of the module hold
MergeSides == {"as committed", "HEAD", "27061228"}

\* create_circuit.  The module as committed holds the markers of an
\* unfinished merge and does not compile.  With the side HEAD (lines 39-43)
\* the register q has num_qubits qubits and c has num_qubits - 1 bits; with
\* the other side (lines 45-51) num_bits and q are never bound, and line 59
\* fails.
iqpeexact_create_circuit(num_qubits, side) ==
    IF side = "as committed"
    THEN Raise("SyntaxError", "invalid syntax", <<>>, <<>>, NoSk)
    ELSE IF num_qubits < 2
    THEN Raise("ValueError", "num_qubits must be >= 2", <<>>, <<>>, NoSk)
    ELSE IF side = "HEAD"
    THEN LET num_bits == num_qubits - 1
         IN  ReturnCircuit(
                ClassicalCircuit("iqpeexact", num_qubits, num_bits,
                    <<Op("x", <<0>>, "none")>>
                    \o Flatten([k \in 1..num_bits |->
                                   IqpeIteration(k - 1, num_bits)])),
                <<>>, <<>>, NoSk)
    ELSE Raise("NameError", "name 'num_bits' is not defined", <<>>, <<>>, NoSk)

\* ------------------------------------------------------------------------
\* Direct calls of the level functions and of a benchmark's create_circuit,
\* each call with arguments of its own, on one target directory
\* ------------------------------------------------------------------------
\* the number of calls of a run
MaxLevelCalls == 2

LevelCircuits == {wstate_create_circuit(2)}

LevelTargets ==
    {get_target_for_gateset(name, 2) :
        name \in {"ibm_falcon", "clifford+t", "rigetti", "ionq_aria"}}

LevelOptInputs == {1, 2}

IqpeSizes == 0..(MaxSize + 1)

\* the import of benchmark_generation imports the targets package (line 24),
\* and with it the devices
PipelineImportsDevices == TRUE

InitLevels ==
    /\ req = IdleRequest
    /\ backported \in BOOLEAN
    /\ res = NoOutcome
    /\ first = NoOutcome
    /\ ncalls = 0
    /\ files = {}
    /\ treq = NoTargetRequest
    /\ TargetsAtStartup(PipelineImportsDevices)
    /\ GatesIdle

\* the bookkeeping of one call with its own arguments
FinishCall(request, outcome) ==
    /\ ncalls < MaxLevelCalls
    /\ req' = request
    /\ res' = outcome
    /\ ncalls' = ncalls + 1
    /\ files' = files \cup outcome.written
    /\ UNCHANGED <<backported, first>>
    /\ UNCHANGED <<tvars, gvars>>

LevelRequest(api, level, qc, target, opt_level, file_precheck, return_qc) ==
    Request(api, "", LevelStr(level), qc.num_qubits, NoneStr, NoneSettings,
            target, "", qc, opt_level, file_precheck, return_qc)

CallAlgLevel ==
    \E qc \in LevelCircuits, fp \in BOOLEAN, rq \in BOOLEAN :
        FinishCall(LevelRequest("get_alg_level", "alg", qc, NoneTarget, 0, fp, rq),
                   get_alg_level(qc, qc.num_qubits, fp, rq, "", "qasm3", files))

CallIndepLevel ==
    \E qc \in LevelCircuits, fp \in BOOLEAN, rq \in BOOLEAN :
        FinishCall(LevelRequest("get_indep_level", "indep", qc, NoneTarget, 0, fp, rq),
                   get_indep_level(qc, qc.num_qubits, fp, rq, "", "qasm3", files))

CallNativeGatesLevel ==
    \E qc \in LevelCircuits, tg \in LevelTargets, o \in LevelOptInputs,
       fp \in BOOLEAN, rq \in BOOLEAN, draw \in Draws :
        FinishCall(LevelRequest("get_native_gates_level", "nativegates", qc, tg, o, fp, rq),
                   get_native_gates_level(qc, tg, qc.num_qubits, o, fp, rq, "",
                                          "qasm3", files, draw, backported))

CallMappedLevel ==
    \E qc \in LevelCircuits, tg \in LevelTargets, o \in LevelOptInputs,
       fp \in BOOLEAN, rq \in BOOLEAN :
        FinishCall(LevelRequest("get_mapped_level", "mapped", qc, tg, o, fp, rq),
                   get_mapped_level(qc, qc.num_qubits, tg, o, fp, rq, "",
                                    "qasm3", files))

\* create_circuit of the benchmark iqpeexact; the request carries the side
\* of the merge in the place of the instance name
CreateIqpeCircuit ==
    \E n \in IqpeSizes, side \in MergeSides :
        FinishCall(Request("create_circuit", "iqpeexact", LevelStr("alg"), n,
                           side, NoneSettings, NoneTarget, "", NoCircuit, 0,
                           FALSE, TRUE),
                   iqpeexact_create_circuit(n, side))

NextLevels ==
    \/ CallAlgLevel
    \/ CallIndepLevel
    \/ CallNativeGatesLevel
    \/ CallMappedLevel
    \/ CreateIqpeCircuit

SpecLevels == InitLevels /\ [][NextLevels]_vars

\* ------------------------------------------------------------------------
\* MirrorTransform: C' = C . barrier . C^-1 with C's terminal measurements
\* reattached
\* ------------------------------------------------------------------------
\* an operation without an inverse
NotInvertible == {"measure", "reset"}

\* the name of the inverse of a gate: a gate that is its own inverse or
\* whose inverse negates its parameter keeps its name, s, t and sx swap
\* with their adjoints, any other gate gets the compiler's suffix
InverseName(name) ==
    CASE name = "s" -> "sdg"
      [] name = "sdg" -> "s"
      [] name = "t" -> "tdg"
      [] name = "tdg" -> "t"
      [] name = "sx" -> "sxdg"
      [] name = "sxdg" -> "sx"
      [] name \in StandardGateNames \cup {"barrier"} -> name
      [] OTHER -> name \o "_dg"

inverse_op(op) == [op EXCEPT !.name = InverseName(op.name)]

\* the inverses in order, had the order not been reversed
inverse_part_in_order(body) == [i \in 1..Len(body) |-> inverse_op(body[i])]

\* the structural inverse: the order reversed, each operation inverted
inverse_part(body) ==
    [i \in 1..Len(body) |-> inverse_op(body[Len(body) + 1 - i])]

\* the terminal measurements of a circuit, in their order: those that
\* remove_final_measurements drops
RECURSIVE FinalMeasurements(_, _, _)
FinalMeasurements(ops, i, blocked) ==
    IF i = 0 THEN <<>>
    ELSE IF ops[i].name \in {"measure", "barrier"}
            /\ Range(ops[i].qubits) \cap blocked = {}
         THEN FinalMeasurements(ops, i - 1, blocked)
              \o (IF ops[i].name = "measure" THEN <<ops[i]>> ELSE <<>>)
         ELSE FinalMeasurements(ops, i - 1, blocked \cup Range(ops[i].qubits))

\* the layout, had the transform kept what the removal left
reestablish_layout_skipped(qc, stripped) == stripped.layout

\* the initial layout of C, declared again on the circuit that the removal
\* of the measurements left without one
reestablish_layout(qc, stripped) == qc.layout

\* the mirrored circuit of qc; a circuit that measures or resets before its
\* end has no inverse
mirror(qc) ==
    LET stripped == remove_final_measurements(qc)
        initial_layout == reestablish_layout(qc, stripped)
        finals == FinalMeasurements(qc.ops, Len(qc.ops), {})
    IN  IF \E i \in DOMAIN stripped.ops : stripped.ops[i].name \in NotInvertible
        THEN Raise("CircuitError", "inverse() not implemented", <<>>,
                   <<"remove_final_measurements">>, NoSk)
        ELSE ReturnCircuit(
                [name |-> qc.name \o "_mirrored",
                 num_qubits |-> qc.num_qubits,
                 ops |-> stripped.ops
                         \o <<Barrier([i \in 1..qc.num_qubits |-> i - 1])>>
                         \o inverse_part(stripped.ops)
                         \o finals,
                 layout |-> initial_layout,
                 final_layout |-> initial_layout],
                <<>>,
                <<"remove_final_measurements", "barrier", "inverse",
                  "measure">>, NoSk)

\* ------------------------------------------------------------------------
\* Requests for mirrored benchmarks and runs of the transform
\* ------------------------------------------------------------------------
MirrorRequest(api, benchmark_name, level, circuit_size, target, qc, generate_mirror_circuit) ==
    [api |-> api, benchmark_name |-> benchmark_name, level |-> level,
     circuit_size |-> circuit_size, benchmark_instance_name |-> NoneStr,
     compiler_settings |-> NoneSettings, target |-> target, target_name |-> "",
     qc |-> qc, opt_level |-> 0, file_precheck |-> FALSE, return_qc |-> TRUE,
     generate_mirror_circuit |-> generate_mirror_circuit]

LayoutInputs == {<<>>, <<1, 0>>}

MirrorCircuits ==
    {[qc EXCEPT !.layout = l] : qc \in CallerCircuits, l \in LayoutInputs}

MirrorRequests ==
    {MirrorRequest("get_benchmark", bn, lv, sz, tg, NoCircuit, flag) :
        <<bn, lv, sz, tg, flag>> \in
            {"wstate", "qft"} \X Range(get_supported_levels) \X (1..MaxSize)
            \X {NoneTarget, get_target_for_gateset("ibm_falcon", 3)} \X BOOLEAN}
    \cup {MirrorRequest("mirror", "", LevelStr("alg"), NoneSize, NoneTarget, qc, TRUE) :
            qc \in MirrorCircuits}

InitMirror ==
    /\ req \in MirrorRequests
    /\ backported \in BOOLEAN
    /\ res = NoOutcome
    /\ first = NoOutcome
    /\ ncalls = 0
    /\ files = {}
    /\ treq = NoTargetRequest
    /\ TargetsAtStartup(PipelineImportsDevices)
    /\ GatesIdle

GetBenchmarkMirrored ==
    /\ req.api = "get_benchmark"
    /\ ncalls < MaxCalls
    /\ \E draw \in Draws :
          Finish(get_benchmark_kwargs(req.benchmark_name, req.level,
                    req.circuit_size, req.benchmark_instance_name,
                    req.compiler_settings, req.target,
                    [generate_mirror_circuit |-> req.generate_mirror_circuit],
                    draw, backported))

MirrorCircuit ==
    /\ req.api = "mirror"
    /\ ncalls < MaxCalls
    /\ Finish(mirror(req.qc))

NextMirror == GetBenchmarkMirrored \/ MirrorCircuit

SpecMirror == InitMirror /\ [][NextMirror]_vars

\* ------------------------------------------------------------------------
\* Properties of the level pipeline
\* ------------------------------------------------------------------------
Called == ncalls > 0

ViaGetBenchmark == req.api \in {"get_benchmark", "get_benchmark_cli"}

LevelIs(s, i) == req.level \in {LevelStr(s), LevelInt(i)}

\* the four abstraction levels, as strings and as numbers
FourLevels ==
    {LevelStr("alg"), LevelStr("indep"), LevelStr("nativegates"),
     LevelStr("mapped"), LevelInt(0), LevelInt(1), LevelInt(2), LevelInt(3)}

\* the request passes the argument validation of get_benchmark
ValidBenchmarkArgs ==
    /\ req.benchmark_name \in Range(get_supported_benchmarks)
    /\ req.benchmark_name # "shor" => req.circuit_size > 0
    /\ req.benchmark_name = "shor" => req.benchmark_instance_name \in ShorInstances

\* the caller gave an optimization level
GivenOptLevel ==
    req.compiler_settings.kind = "CompilerSettings"
    /\ ~req.compiler_settings.qiskit_none

\* the runs of the generic compiler's optimization among the invocations
OptimizationCalls(outcome) ==
    {i \in DOMAIN outcome.calls :
        outcome.calls[i].fn \in {"transpile", "pass_manager"}}

C3_UnsupportedLevelRejected ==
    (/\ Called
     /\ ViaGetBenchmark
     /\ req.benchmark_name \in Range(get_supported_benchmarks)
     /\ req.level \notin FourLevels)
    => (/\ res.kind = "error"
        /\ res.err = "ValueError"
        /\ res.msg = "Selected level must be in"
        /\ "create_circuit" \notin Range(res.steps)
        /\ res.calls = <<>>)

C3_Witness ==
    /\ Called
    /\ req.api = "get_benchmark"
    /\ req.benchmark_name = "wstate"
    /\ req.level = LevelInt(4)
    /\ req.circuit_size = 0
    /\ req.compiler_settings = OtherSettings
    /\ res.kind = "error"
    /\ res.msg = "Selected level must be in"

C7_AlgReturnsRawCircuit ==
    (/\ Called
     /\ req.api = "get_benchmark"
     /\ LevelIs("alg", 0)
     /\ ValidBenchmarkArgs)
    => (/\ res.kind = "circuit"
        /\ res.qc = create_circuit(req.benchmark_name, req.circuit_size)
        /\ res.calls = <<>>)

C7_Witness ==
    /\ Called
    /\ req.api = "get_benchmark"
    /\ req.level = LevelInt(0)
    /\ req.benchmark_name = "wstate"
    /\ req.circuit_size = 2
    /\ req.compiler_settings = OtherSettings
    /\ ~req.target.isNone
    /\ res.kind = "circuit"
    /\ Len(res.qc.ops) > 0

\* C10: at NATIVEGATES with an optimization level 0..3 the target's pass
\* manager runs with routing and layout disabled, and the circuit returned
\* carries no layout.
C10_NativeGatesNoLayout ==
    (/\ Called
     /\ ViaGetBenchmark
     /\ LevelIs("nativegates", 2))
    => (/\ \A i \in DOMAIN res.calls :
              res.calls[i].fn = "pass_manager"
              => /\ res.calls[i].routing_method = ""
                 /\ res.calls[i].layout_method = ""
                 /\ res.calls[i].out.ok => res.calls[i].out.qc.layout = <<>>
        /\ res.kind = "circuit" => res.qc.layout = <<>>)

C10_Witness ==
    /\ Called
    /\ req.api = "get_benchmark"
    /\ req.level = LevelStr("nativegates")
    /\ req.target.description = "ibm_falcon"
    /\ req.compiler_settings = CompilerSettings(3)
    /\ res.kind = "circuit"
    /\ \E i \in DOMAIN res.calls :
          res.calls[i].fn = "pass_manager" /\ res.calls[i].target = req.target

\* ------------------------------------------------------------------------
\* Properties of the discrete-synthesis sub-path
\* ------------------------------------------------------------------------
SkEligible(op) == ~SkIgnored(op)

\* the target is of the discrete-universal family
DiscreteTarget == ~req.target.isNone /\ req.target.description = "clifford+t"

\* C8: the synthesis pass the NATIVEGATES pipeline runs replaces the nodes
\* that act on one qubit, carry no unbound parameter and have a matrix, and
\* leaves every other node in the circuit as it was, in the same order.
C8_SynthesisSkipsIgnoredNodes ==
    (Called /\ res.sk.ran)
    => (/\ res.sk.out.ok
        /\ SelectSeq(res.sk.out.ops, SkIgnored) = SelectSeq(res.sk.input, SkIgnored)
        /\ SelectSeq(res.sk.out.ops, SkEligible)
             = LET eligible == SelectSeq(res.sk.input, SkEligible)
               IN  Flatten([i \in DOMAIN eligible |-> SkApproximation(eligible[i])]))

\* C9: for a discrete-universal target the NATIVEGATES output holds no
\* parametrized one-qubit rotation: each one-qubit operation is a gate of
\* the discrete family without parameter, or an instruction that is no gate.
C9_NoRotationInDiscreteOutput ==
    (Called /\ LevelIs("nativegates", 2) /\ DiscreteTarget /\ res.kind = "circuit")
    => \A i \in DOMAIN res.qc.ops :
          op_num_qubits(res.qc.ops[i]) = 1
          => \/ res.qc.ops[i].name \in NonGateNames
             \/ /\ res.qc.ops[i].par = "none"
                /\ res.qc.ops[i].name \notin ContinuousRotationNames

C9_Witness ==
    /\ Called
    /\ DiscreteTarget
    /\ res.kind = "circuit"
    /\ \E i \in DOMAIN req.qc.ops : req.qc.ops[i].name = "ry"
    /\ res.sk.ran
    /\ \E i \in DOMAIN res.qc.ops : res.qc.ops[i].name = "t"

\* ------------------------------------------------------------------------
\* Properties of the target builder
\* ------------------------------------------------------------------------
\* the device names and the entangling gates the builder resolves
SupportedIonqDevices == {"ionq_aria_1", "ionq_forte_1"}

SupportedEntanglingGates == {"MS", "ZZ"}

\* the latest call raised a ValueError whose message holds the name and
\* returned no target
RejectedWithName(name) ==
    /\ ~tres.ok
    /\ tres.err = "ValueError"
    /\ name \in Range(tres.msg)
    /\ tres.target = NoneTarget
    /\ tres.ref = 0

\* C11: a gateset name outside the catalog, an IonQ device name that is not
\* supported and an entangling gate other than the supported ones each end
\* the call in an error whose message holds the name, and no target is
\* returned, whatever the calibration constants.
C11_UnknownNameRejected ==
    /\ (tres.api = "get_target_for_gateset" /\ tres.name \notin GatesetNames)
       => RejectedWithName(tres.name)
    /\ (tres.api = "get_ionq_target" /\ tres.name \notin SupportedIonqDevices)
       => RejectedWithName(tres.name)
    /\ (tres.api = "_build_ionq_target"
        /\ tres.entangling_gate \notin SupportedEntanglingGates)
       => RejectedWithName(tres.entangling_gate)

C11_Witness ==
    /\ tres.api = "_build_ionq_target"
    /\ tres.entangling_gate = "wrong_gate"
    /\ tres.calibration = <<-1, -1, -1, 150000, 150000, 150000>>
    /\ ~tres.ok
    /\ tres.msg = <<"Unknown entangling gate: '", "wrong_gate", "'.">>

\* the latest call is get_target_for_gateset with a name of the catalog
SyntheticBuild ==
    tres.api = "get_target_for_gateset" /\ tres.name \in GatesetNames

\* C12: for every gateset name of the catalog and every qubit count the
\* target returned is described by the gateset name, every standard
\* operation of the gateset carries properties, every custom one is
\* declared without properties, and each identifier is in one class only.
C12_SyntheticTargetShape ==
    SyntheticBuild
    => /\ tres.ok
       /\ tres.target.description = tres.name
       /\ \A g \in Range(get_available_native_gatesets[tres.name]) :
             IF g \in StandardGateNames
             THEN /\ g \in tres.target.with_props
                  /\ g \notin tres.target.without_props
             ELSE /\ CustomGateName(g) \in tres.target.without_props
                  /\ CustomGateName(g) \notin tres.target.with_props

\* C13: a target returned by get_target_for_gateset is an object of its
\* own: what a caller did to the target of an earlier call with the same
\* arguments does not show in it.
C13_TargetsIndependent ==
    (SyntheticBuild /\ tres.ok)
    => tres.target = get_target_for_gateset(tres.name, tres.num_qubits)

\* the latest call built a calibrated device target
DeviceBuild ==
    tres.api \in {"get_ionq_target", "_build_ionq_target"} /\ tres.ok

\* the constants a calibrated target was built from: those passed to
\* _build_ionq_target, or those of the device
CalibrationOf(call) ==
    IF call.api = "_build_ionq_target" THEN call.calibration
    ELSE IF call.name = "ionq_aria_1"
    THEN <<135, 600, 300, 99980, 98720, 99370>>
    ELSE <<130, 970, 150, 99980, 99320, 99590>>

\* the wires an operation of a target is declared on
WiresOf(target, op) == {p.qargs : p \in {r \in target.props : r.op = op}}

\* C14: a calibrated target with n qubits declares its entangling operation
\* on exactly the n*(n-1) ordered pairs of distinct qubits, each with the
\* two-qubit duration and the error 1 - two-qubit fidelity, and gpi, gpi2
\* and measure on every one of the n qubits.
C14_FullConnectivity ==
    DeviceBuild
    => LET target == tres.target
           n == target.num_qubits
           c == CalibrationOf(tres)
           twoq == {r \in target.props : r.op \in {"ms", "zz"}}
       IN  /\ {r.qargs : r \in twoq}
                = {<<i, j>> : i, j \in 0..(n - 1)} \ {<<i, i>> : i \in 0..(n - 1)}
           /\ Cardinality(twoq) = n * (n - 1)
           /\ \A r \in twoq :
                 /\ r.qargs[1] # r.qargs[2]
                 /\ r.duration = c[2]
                 /\ r.error = FidelityOne - c[5]
           /\ \A op \in {"gpi", "gpi2", "measure"} :
                 WiresOf(target, op) = {<<q>> : q \in 0..(n - 1)}

C14_Witness ==
    /\ tres.api = "get_ionq_target"
    /\ tres.name = "ionq_aria_1"
    /\ tres.ok
    /\ tres.target.num_qubits = 25
    /\ [op |-> "ms", qargs |-> <<24, 0>>, duration |-> 600, error |-> 1280]
           \in tres.target.props

\* C15: every InstructionProperties record of a target the builder returns
\* has a duration of at least 0 and an error between 0 and 1, for all the
\* calibration constants the builder accepts.
C15_PropertiesInRange ==
    (tres.api \in {"get_ionq_target", "_build_ionq_target"} /\ tres.ok)
    => \A r \in tres.target.props :
          r.duration >= 0 /\ r.error >= 0 /\ r.error <= FidelityOne

\* the entangling operation of a device of the Aria or the Forte family
EntanglerOf(device_name) ==
    IF device_name \in {"ionq_aria_1", "ionq_aria_25"} THEN "ms" ELSE "zz"

\* C16: for the device names of get_ionq_target, "ionq_aria_25" of the test
\* among them, the target returned is described by the name asked for, has
\* a positive qubit count and has the operations gpi, gpi2, measure and the
\* entangling gate of the device.
C16_IonqTargetShape ==
    (tres.api = "get_ionq_target"
     /\ tres.name \in SupportedIonqDevices \cup {"ionq_aria_25"})
    => /\ tres.ok
       /\ tres.target.description = tres.name
       /\ tres.target.num_qubits > 0
       /\ {"gpi", "gpi2", "measure", EntanglerOf(tres.name)}
              \subseteq operation_names(tres.target)

\* ------------------------------------------------------------------------
\* Properties of the equivalence registry
\* ------------------------------------------------------------------------
\* the rules a vendor has in a list of rules
RulesOf(vendor, rules) ==
    LET mine(r) == r.module = vendor IN SelectSeq(rules, mine)

\* the library after one run of a vendor's registration and nothing else
RegisteredOnce(vendor) == AddAll(EmptyRegistry, VendorRules(vendor))

\* C17: registration is idempotent: once a vendor's registration has run,
\* however often, the registry holds for U and for CX the rules of that
\* vendor that it holds after one run, and no duplicate.
C17_RegistrationIdempotent ==
    \A v \in Vendors :
       registrations[v] >= 1
       => \A key \in {"u", "cx"} :
             RulesOf(v, registry[key]) = RulesOf(v, RegisteredOnce(v)[key])

\* the lookups of the catalog: the listing of the gatesets, the resolution
\* of a name and the reading of a vendor's gateset
LookupApis ==
    DOMAIN GatesetGetters
        \cup {"get_available_native_gatesets", "get_target_for_gateset"}

\* C18: a lookup in the catalog has no side effect: it leaves the registry
\* exactly as it found it.
C18_LookupsLeaveRegistry ==
    tres.api \in LookupApis => registry = tres.registry_before

\* ------------------------------------------------------------------------
\* Properties of the custom gates
\* ------------------------------------------------------------------------
\* the entries of a matrix, by row and column
Entries(a) == Idx(a.dim) \X Idx(a.dim)

At(a, e) == a.m[e[1]][e[2]]

\* the sum of the squared moduli of the entries of row 0, times den^2
RowNorm(a) ==
    CSum([c \in Idx(a.dim) |-> CMul(a.m[0][c], CConj(a.m[0][c]))], a.dim - 1)

\* a = exp(i * t) * b for some real t: the entries of a and b are
\* proportional, neither matrix is zero, and the factor has modulus 1
EqualUpToPhase(a, b) ==
    /\ a.dim = b.dim
    /\ \A e, f \in Entries(a) :
          CMul(At(a, e), At(b, f)) = CMul(At(a, f), At(b, e))
    /\ RowNorm(a) # CZero
    /\ RowNorm(b) # CZero
    /\ CScale(b.den * b.den, RowNorm(a)) = CScale(a.den * a.den, RowNorm(b))

\* C19: for every custom gate and every parameter value the unitary of the
\* gate's definition circuit equals the gate's closed-form matrix up to a
\* global phase.
C19_DefinitionMatchesMatrix ==
    gres.name # "none" => EqualUpToPhase(gres.operator, gres.array)

C19_Witness ==
    /\ gres.name = "ms"
    /\ gres.params = <<1, -1, 2>>
    /\ Len(gres.definition) = 6
    /\ EqualUpToPhase(gres.operator, gres.array)

\* the operation names and the wires of a definition, in order
Shape(ops) == [i \in DOMAIN ops |-> <<ops[i].name, ops[i].qubits>>]

\* the definition of the gate has the same names and wires whatever the
\* parameters
FixedShape ==
    \A ps \in ParamTuples(gres.name) :
       Shape(definition(gres.name, ps)) = Shape(gres.definition)

\* C20 as stated: the definition of every custom gate is a fixed sequence
\* of between 3 and 6 operations, its names and wires the same for all
\* parameter values.
C20_ThreeToSixOperations ==
    gres.name # "none"
    => Len(gres.definition) \in 3..6 /\ FixedShape

\* C20 amended: the definition of every custom gate is a fixed sequence of
\* between 1 and 6 operations, its names and wires the same for all
\* parameter values.
C20_OneToSixOperations ==
    gres.name # "none"
    => Len(gres.definition) \in 1..6 /\ FixedShape

C20_Witness ==
    /\ gres.name = "gpi"
    /\ gres.params = <<2>>
    /\ Shape(gres.definition) = <<<<"x", <<0>>>>, <<"rz", <<0>>>>>>

\* ------------------------------------------------------------------------
\* Properties of mirrored benchmarks
\* ------------------------------------------------------------------------
\* the number of operations of a name
CountOps(ops, name) == Cardinality({i \in DOMAIN ops : ops[i].name = name})

\* the number of operations of a sequence that are neither barriers nor
\* measurements
CountGates(ops) ==
    Cardinality({i \in DOMAIN ops : ops[i].name \notin {"barrier", "measure"}})

\* a mirrored benchmark was asked of get_benchmark and a circuit came back
MirroredBenchmark ==
    /\ req.api = "get_benchmark"
    /\ req.generate_mirror_circuit
    /\ res.kind = "circuit"

\* the circuit that the same request returns without the flag
Unmirrored(draw) ==
    get_benchmark(req.benchmark_name, req.level, req.circuit_size,
                  req.benchmark_instance_name, req.compiler_settings,
                  req.target, draw, backported)

\* C21: a mirrored benchmark M generated from the circuit C has C's number
\* of qubits, at least one barrier, exactly 2 * |ops(C)| operations that
\* are neither barriers nor measurements, |ops(C)| counting C's operations
\* once its final measurements are removed, and as many measurements as C.
C21_MirroredCounts ==
    MirroredBenchmark
    => \E draw \in Draws :
          LET C == Unmirrored(draw).qc
              M == res.qc
          IN  /\ Unmirrored(draw).kind = "circuit"
              /\ M.num_qubits = C.num_qubits
              /\ CountOps(M.ops, "barrier") >= 1
              /\ CountGates(M.ops) = 2 * Len(remove_final_measurements(C).ops)
              /\ CountOps(M.ops, "measure") = CountOps(C.ops, "measure")

\* the transform ran on the circuit C of the request and returned M
Mirrored == req.api = "mirror" /\ res.kind = "circuit"

C24_MirrorIsLastStep ==
    MirroredBenchmark
    => \E draw \in Draws :
          /\ Unmirrored(draw).kind = "circuit"
          /\ mirror(Unmirrored(draw).qc).kind = "circuit"
          /\ res.qc = mirror(Unmirrored(draw).qc).qc
          /\ res.steps # <<>>
          /\ res.steps[Len(res.steps)] = "measure"

\* ------------------------------------------------------------------------
\* Properties of direct calls of the level functions
\* ------------------------------------------------------------------------
LevelFunctions ==
    {"get_alg_level", "get_indep_level", "get_native_gates_level",
     "get_mapped_level"}

\* the call found its file and generated nothing
Suppressed(request, outcome) ==
    /\ request.file_precheck
    /\ outcome.kind = "true"
    /\ outcome.written = {}
    /\ outcome.calls = <<>>

\* C25: a level function called with return_qc = True returns a circuit and
\* never the boolean True, whatever file_precheck is and whether or not the
\* file exists.
C25_ReturnQcNeverBoolean ==
    (req.api \in LevelFunctions /\ req.return_qc) => res.kind # "true"

\* C26: the filename of the native-gates and of the mapped level encodes
\* the target and the optimization level: a call that finds the file its
\* predecessor wrote for the same benchmark and size, and generates
\* nothing, has the predecessor's target description and optimization
\* level.
C26_PrecheckKeepsTargetsApart ==
    [][(/\ ncalls = 1
        /\ res.written # {}
        /\ req.api \in {"get_native_gates_level", "get_mapped_level"}
        /\ req'.api = req.api
        /\ req'.qc = req.qc
        /\ Suppressed(req', res'))
       => (/\ req'.target.description = req.target.description
           /\ req'.opt_level = req.opt_level)]_vars

\* C27: for n >= 2 the circuit of iterative phase estimation has exactly 2
\* qubits, n - 1 classical bits, n - 1 resets, n - 1 measurements and
\* (n - 1)(n - 2)/2 conditional operations; for n < 2 the construction
\* fails with an error.
C27_IqpeShape ==
    (req.api = "create_circuit" /\ req.benchmark_name = "iqpeexact")
    => LET n == req.circuit_size
       IN  IF n >= 2
           THEN /\ res.kind = "circuit"
                /\ res.qc.num_qubits = 2
                /\ res.qc.num_clbits = n - 1
                /\ CountOps(res.qc.ops, "reset") = n - 1
                /\ CountOps(res.qc.ops, "measure") = n - 1
                /\ 2 * CountOps(res.qc.ops, "if_else") = (n - 1) * (n - 2)
           ELSE res.kind = "error"

\* the custom gates of each vendor, by the names a target declares
RigettiGateNames == {"rx_pi", "rx_pi_2", "rx_minus_pi_2"}

IonqGateNames == {"gpi", "gpi2", "ms", "zz"}

\* the library holds a rule for the gate that a module of the vendor added
HasVendorRule(modules, key) ==
    \E i \in DOMAIN registry[key] : registry[key][i].module \in modules

\* the call compiled for the native-gates or the mapped level
CompiledForTarget ==
    /\ req.api \in {"get_native_gates_level", "get_mapped_level"}
    /\ res.calls # <<>>

SubPathSteps ==
    <<"transpile", "remove_final_measurements", "SolovayKitaev", "measure_all">>

StepOrder == SubPathSteps \o <<"pass_manager">>

IsPrefix(s, t) == Len(s) <= Len(t) /\ s = SubSeq(t, 1, Len(s))

\* a call of get_native_gates_level with a target that got past the
\* precheck of the file
NativeCallRan ==
    /\ req.api = "get_native_gates_level"
    /\ res.kind # "none"
    /\ ~req.target.isNone
    /\ ~Suppressed(req, res)

C30_CatalogNamesDeclared ==
    (SyntheticBuild /\ tres.ok)
    => \A g \in Range(get_available_native_gatesets[tres.name]) :
          g \in operation_names(tres.target)

====
